---- MODULE Spec2Model ----
(***************************************************************************)
(* State-machine model of the image processing pipeline of the T-shirt     *)
(* design extractor:                                                       *)
(*   - ImageProcessorService (src/src/services/ImageProcessorService.js):  *)
(*     processImage with its result cache, one action per await point;     *)
(*   - RemoveBgService (src/src/services/BackgroundRemovalAPI.js):         *)
(*     removeBackground with _executeWithRetry and the error               *)
(*     classification.                                                     *)
(* Spec       : calls of processImage made one after the other on one      *)
(*              ImageProcessorService instance with an injected client.    *)
(* SpecClient : one removeBackground call of a RemoveBgService against a   *)
(*              server that answers each post in any way.                  *)
(***************************************************************************)
EXTENDS Integers, Sequences, FiniteSets, TLC

(***************************************************************************)
(* Bounds of the model.                                                    *)
(***************************************************************************)
\* processImage calls made after the initial state
MaxCalls == 2
\* milliseconds the clock is followed beyond one expiry window
MaxSlack == 1
\* processImage calls that may be in flight together (Spec uses one)
NumProcs == 2
\* largest maxRetries a RemoveBgService is configured with
MaxRetriesCfg == 3
\* largest width, height and bound of a resizeImage call
MaxDim == 7
\* largest number of pixels of a buffer whose pixels are all chosen freely
MaxPixels == 4
\* largest maxAttempts an ErrorRecovery.retry call is given
MaxAttempts == 3
\* largest number of resources registered together
MaxResources == 3
\* cleanup calls made on one ErrorRecovery
MaxCleanups == 2
\* ImageProcessorService.processImage calls an App makes
MaxAppCalls == 2

(***************************************************************************)
(* Program constants (constants.js, src/unnamed/part_013).                 *)
(***************************************************************************)
MAX_IMAGE_WIDTH == 2000
MAX_IMAGE_HEIGHT == 2000
MAX_CACHE_SIZE == 10
CACHE_EXPIRATION_TIME == 3600000
PATTERN_PADDING == 20
OUTPUT_FORMAT == "image/png"

UPLOAD_ERROR == "UPLOAD_ERROR"
PROCESSING_ERROR == "PROCESSING_ERROR"
API_ERROR == "API_ERROR"
NETWORK_ERROR == "NETWORK_ERROR"
CANVAS_ERROR == "CANVAS_ERROR"
IMAGE_LOAD_ERROR == "IMAGE_LOAD_ERROR"
API_KEY_INVALID == "API_KEY_INVALID"
API_QUOTA_EXCEEDED == "API_QUOTA_EXCEEDED"
API_SERVICE_UNAVAILABLE == "API_SERVICE_UNAVAILABLE"
API_BAD_REQUEST == "API_BAD_REQUEST"
NETWORK_TIMEOUT == "NETWORK_TIMEOUT"

API_RETRY_MAX_ATTEMPTS == 3
API_RETRY_INITIAL_DELAY == 1000
API_RETRY_BACKOFF_MULTIPLIER == 2

VARIABLES
  api,        \* this.backgroundRemovalApi is set (not null)
  cache,      \* this.cache: the Map's entries in insertion order
  now,        \* Date.now()
  calls,      \* the processImage calls: position and locals of each
  ncalls,     \* history: processImage calls started
  nextFresh,  \* history: index of the first ordinary file never submitted
  inserted,   \* history: keys in the order _cacheResult stored them since
              \* the cache was last empty by construction or clearCache
  purged,     \* history: an expired entry has been removed
  prev,       \* history: the call made just before, if it returned a result
              \* and clearCache has not run since
  cfg,        \* RemoveBgService: maxRetries, initialDelay, backoffMultiplier
  rpc,        \* removeBackground call: idle, posting, sleeping, returned, thrown
  attempt,    \* _executeWithRetry: the loop variable
  lastError,  \* _executeWithRetry: lastError (<<>> while undefined)
  thrown,     \* the error removeBackground threw (<<>> otherwise)
  posts,      \* history: this.client.post calls of the call
  sleeps,     \* history: the delays passed to _sleep, in order
  responses,  \* history: what the server answered to each post, in order
  imageBlob,  \* removeBackground: the imageBlob argument (<<>> before the call)
  canvasCall, \* a call of CanvasUtility.resizeImage: arguments and outcome
  cropCall,   \* a call of the PatternExtractor: arguments and outcome
  env,        \* process.env.VUE_APP_ENABLE_PATTERN_EXTRACTION at build time
  blobCall,   \* a call of CanvasUtility.imageToBlob: arguments and outcome
  verdict,    \* a call of ErrorRecovery.isRetryable: argument and result
  retryCall,  \* a call of ErrorRecovery.retry or withRetry: arguments,
              \* locals, outcome and history
  resources,  \* ErrorRecovery: this.temporaryResources and the history of
              \* the releases cleanup attempted
  app,        \* App.vue: the component's data
  appHist,    \* App.vue: the ImageProcessorService.processImage calls it
              \* awaits, and history: those it made, what retry last did
  keyCall     \* _generateCacheKey applied to two files: arguments and keys

\* process.env.VUE_APP_ENABLE_PATTERN_EXTRACTION !== 'false'
ENABLE_PATTERN_EXTRACTION == env # "false"

orchVars == <<api, cache, now, calls, ncalls, nextFresh, inserted, purged, prev>>
clientVars == <<cfg, rpc, attempt, lastError, thrown, posts, sleeps, responses,
                imageBlob>>
utilVars == <<canvasCall, cropCall>>
recoveryVars == <<verdict, retryCall, resources>>
componentVars == <<app, appHist>>
appVars == <<env, blobCall, verdict, retryCall, resources, app, appHist, keyCall>>
vars == <<api, cache, now, calls, ncalls, nextFresh, inserted, purged, prev,
          cfg, rpc, attempt, lastError, thrown, posts, sleeps, responses,
          imageBlob, canvasCall, cropCall, env, blobCall,
          verdict, retryCall, resources, app, appHist, keyCall>>

Procs == 1 .. NumProcs

(***************************************************************************)
(* Thrown values.  A JavaScript value that is thrown is undefined/null     *)
(* (nullish) or an object whose type, code and retryable properties may be *)
(* missing ("" for a missing type or code, hasRetryable for retryable).    *)
(***************************************************************************)
CreateError(type, code, retryable) ==
  [nullish |-> FALSE, type |-> type, code |-> code,
   hasRetryable |-> TRUE, retryable |-> retryable]

\* new Error(message): no type, no code, no retryable
RawError ==
  [nullish |-> FALSE, type |-> "", code |-> "",
   hasRetryable |-> FALSE, retryable |-> FALSE]

\* the test double of ImageProcessorService.spec.js: type and code only
PartialError(type, code) ==
  [nullish |-> FALSE, type |-> type, code |-> code,
   hasRetryable |-> FALSE, retryable |-> FALSE]

\* undefined or null
Nullish ==
  [nullish |-> TRUE, type |-> "", code |-> "",
   hasRetryable |-> FALSE, retryable |-> FALSE]

\* JavaScript truthiness of error.retryable
IsRetryableFlag(e) == (~e.nullish) /\ e.hasRetryable /\ e.retryable

(***************************************************************************)
(* Inputs of processImage.                                                 *)
(***************************************************************************)
NoPixels == [w |-> 0, h |-> 0]

MkInput(kind, name, size, lastModified, type, content) ==
  [kind |-> kind, name |-> name, size |-> size, lastModified |-> lastModified,
   type |-> type, content |-> content]

NullInput == MkInput("null", "", 0, 0, "", NoPixels)
NotAFile == MkInput("object", "", 0, 0, "", NoPixels)

\* the i-th ordinary file: a small decodable PNG; names, sizes and dates vary
PoolFile(i) ==
  MkInput("file", "shirt" \o ToString(i \div 3) \o ".png", 1000 + (i % 3),
          1234567890 + (i % 2), "image/png", [w |-> 100, h |-> 100])

\* a file with the identity of PoolFile(1) and other bytes
TwinFile ==
  MkInput("file", PoolFile(1).name, PoolFile(1).size, PoolFile(1).lastModified,
          PoolFile(1).type, [w |-> 300, h |-> 200])

\* bytes the decoder rejects
CorruptFile == MkInput("file", "broken.png", 17, 1234567890, "image/png", NoPixels)

\* larger than the compression threshold
BigFile == MkInput("file", "big.jpg", 900000, 1234567890, "image/jpeg", [w |-> 4000, h |-> 3000])

\* larger than the threshold and one pixel high
ThinFile == MkInput("file", "thin.png", 5000, 1234567890, "image/png", [w |-> 5000, h |-> 1])

SpecialFiles == {TwinFile, CorruptFile, BigFile, ThinFile}

\* files at the compression threshold and one pixel beyond it
EdgeFile ==
  MkInput("file", "edge.png", 2000, 1234567890, "image/png",
          [w |-> MAX_IMAGE_WIDTH, h |-> MAX_IMAGE_HEIGHT])

WideFile ==
  MkInput("file", "wide.png", 2001, 1234567890, "image/png",
          [w |-> MAX_IMAGE_WIDTH + 1, h |-> MAX_IMAGE_HEIGHT])

TallFile ==
  MkInput("file", "tall.png", 2002, 1234567890, "image/png",
          [w |-> MAX_IMAGE_WIDTH, h |-> MAX_IMAGE_HEIGHT + 1])

ThresholdFiles == {EdgeFile, WideFile, TallFile}

\* imageFile && imageFile instanceof File
IsFile(input) == input.kind = "file"

(***************************************************************************)
(* Conversions.                                                            *)
(***************************************************************************)
NoUrl == [mime |-> "", data |-> NoPixels, tag |-> ""]

\* FileReader.readAsDataURL: the declared type and the bytes, not the name
DataUrlOf(blob) == [mime |-> blob.type, data |-> blob.content, tag |-> blob.tag]

\* a File seen as the Blob it is
FileBlob(f) == [isBlob |-> TRUE, type |-> f.type, content |-> f.content, tag |-> "original"]

\* what a client can resolve with
ClientValues ==
  { [isBlob |-> TRUE, type |-> "image/png", content |-> [w |-> 80, h |-> 60], tag |-> "cutA"],
    [isBlob |-> TRUE, type |-> "image/png", content |-> [w |-> 90, h |-> 70], tag |-> "cutB"],
    [isBlob |-> TRUE, type |-> "image/png", content |-> NoPixels, tag |-> "garbage"],
    [isBlob |-> FALSE, type |-> "", content |-> NoPixels, tag |-> "notablob"] }

\* what a client can reject with
ClientThrows ==
  { CreateError(API_ERROR, API_BAD_REQUEST, FALSE),
    CreateError(API_ERROR, API_SERVICE_UNAVAILABLE, TRUE),
    CreateError(NETWORK_ERROR, NETWORK_TIMEOUT, TRUE),
    PartialError(API_ERROR, API_SERVICE_UNAVAILABLE),
    RawError,
    Nullish }

\* Math.round of the non-negative rational n / d
RoundDiv(n, d) == (2 * n + d) \div (2 * d)

\* CanvasUtility.createCanvas accepts the dimensions
CanvasOk(w, h) == w > 0 /\ h > 0

\* resizeImage without the pass that fits the height
ResizeImageWidthOnly(image, maxWidth, maxHeight) ==
  IF image.w <= maxWidth /\ image.h <= maxHeight
  THEN [w |-> image.w, h |-> image.h]
  ELSE IF image.w > maxWidth
  THEN [w |-> maxWidth, h |-> RoundDiv(image.h * maxWidth, image.w)]
  ELSE [w |-> image.w, h |-> image.h]

\* resizeImage stretching an image that fits to the full bounds
ResizeImageStretch(image, maxWidth, maxHeight) ==
  IF image.w <= maxWidth /\ image.h <= maxHeight
  THEN [w |-> maxWidth, h |-> maxHeight]
  ELSE LET w1 == IF image.w > maxWidth THEN maxWidth ELSE image.w
           h1 == IF image.w > maxWidth
                 THEN RoundDiv(image.h * maxWidth, image.w)
                 ELSE image.h
           w2 == IF h1 > maxHeight THEN RoundDiv(w1 * maxHeight, h1) ELSE w1
           h2 == IF h1 > maxHeight THEN maxHeight ELSE h1
       IN [w |-> w2, h |-> h2]

\* resizeImage with Math.floor in place of Math.round
ResizeImageFloor(image, maxWidth, maxHeight) ==
  IF image.w <= maxWidth /\ image.h <= maxHeight
  THEN [w |-> image.w, h |-> image.h]
  ELSE LET w1 == IF image.w > maxWidth THEN maxWidth ELSE image.w
           h1 == IF image.w > maxWidth
                 THEN (image.h * maxWidth) \div image.w
                 ELSE image.h
           w2 == IF h1 > maxHeight THEN (w1 * maxHeight) \div h1 ELSE w1
           h2 == IF h1 > maxHeight THEN maxHeight ELSE h1
       IN [w |-> w2, h |-> h2]

\* CanvasUtility.resizeImage: the dimensions of the canvas it asks for
resizeImage(image, maxWidth, maxHeight) ==
  IF image.w <= maxWidth /\ image.h <= maxHeight
  THEN [w |-> image.w, h |-> image.h]
  ELSE LET w1 == IF image.w > maxWidth THEN maxWidth ELSE image.w
           h1 == IF image.w > maxWidth
                 THEN RoundDiv(image.h * maxWidth, image.w)
                 ELSE image.h
           w2 == IF h1 > maxHeight THEN RoundDiv(w1 * maxHeight, h1) ELSE w1
           h2 == IF h1 > maxHeight THEN maxHeight ELSE h1
       IN [w |-> w2, h |-> h2]

\* no PatternExtractor call made
NoCropCall ==
  [pc |-> "idle", op |-> "", pixels |-> <<>>, width |-> 0, height |-> 0,
   threshold |-> 0, padding |-> 0, densityThreshold |-> [n |-> 0, d |-> 1],
   density |-> <<>>, bounds |-> <<>>, strategy |-> "", crop |-> <<>>,
   dominant |-> <<>>]

\* no resizeImage call made
NoCanvasCall ==
  [pc |-> "idle", image |-> NoPixels, maxWidth |-> 0, maxHeight |-> 0, canvas |-> NoPixels]

UtilIdle == canvasCall = NoCanvasCall /\ cropCall = NoCropCall

\* the values of the environment variable: not set, 'true', 'false'
EnvValues == {"undefined", "true", "false"}

\* a format argument: whether it is a string, its first six characters
\* (fewer when it is shorter) and the rest
Format(string, head, rest) == [string |-> string, head |-> head, rest |-> rest]

FormatText(format) == format.head \o format.rest

\* typeof format === 'string' && format.startsWith('image/')
IsImageFormat(format) == format.string /\ format.head = "image/"

\* a quality argument: whether typeof gives 'number', whether it is NaN,
\* and its value in hundredths
Quality(number, nan, hundredths) ==
  [number |-> number, nan |-> nan, hundredths |-> hundredths]

\* typeof quality === 'number' && !(quality < 0) && !(quality > 1): every
\* comparison with NaN is false
IsQuality(quality) ==
  /\ quality.number
  /\ quality.nan \/ (quality.hundredths >= 0 /\ quality.hundredths <= 100)

NoBlobCall ==
  [pc |-> "idle", canvas |-> FALSE, format |-> Format(FALSE, "", ""),
   quality |-> Quality(FALSE, FALSE, 0), encoded |-> FALSE, error |-> <<>>]

\* the executor of imageToBlob's promise: it rejects a value that is not a
\* canvas, a format that does not start with image/ and a quality that is
\* not a number of [0, 1], and calls canvas.toBlob otherwise
ImageToBlob ==
  /\ blobCall.pc = "called"
  /\ IF blobCall.canvas /\ IsImageFormat(blobCall.format) /\ IsQuality(blobCall.quality)
     THEN blobCall' = [blobCall EXCEPT !.pc = "encoding", !.encoded = TRUE]
     ELSE blobCall' = [blobCall EXCEPT !.pc = "rejected", !.error = <<RawError>>]
  /\ UNCHANGED orchVars
  /\ UNCHANGED clientVars
  /\ UNCHANGED utilVars
  /\ UNCHANGED <<env, keyCall>>
  /\ UNCHANGED recoveryVars
  /\ UNCHANGED componentVars

\* the callback of canvas.toBlob runs with a Blob or with null
ToBlobDone(blob) ==
  /\ blobCall.pc = "encoding"
  /\ IF blob
     THEN blobCall' = [blobCall EXCEPT !.pc = "resolved"]
     ELSE blobCall' = [blobCall EXCEPT !.pc = "rejected", !.error = <<RawError>>]
  /\ UNCHANGED orchVars
  /\ UNCHANGED clientVars
  /\ UNCHANGED utilVars
  /\ UNCHANGED <<env, keyCall>>
  /\ UNCHANGED recoveryVars
  /\ UNCHANGED componentVars

\* resizeImage(image, maxWidth, maxHeight) runs: it throws for bounds that
\* are not positive and when createCanvas rejects the dimensions, and
\* returns the canvas otherwise
ResizeImage ==
  /\ canvasCall.pc = "called"
  /\ LET canvas == resizeImage(canvasCall.image, canvasCall.maxWidth, canvasCall.maxHeight)
     IN IF canvasCall.maxWidth <= 0 \/ canvasCall.maxHeight <= 0
        THEN canvasCall' = [canvasCall EXCEPT !.pc = "thrown"]
        ELSE IF ~CanvasOk(canvas.w, canvas.h)
        THEN canvasCall' = [canvasCall EXCEPT !.pc = "thrown"]
        ELSE canvasCall' = [canvasCall EXCEPT !.pc = "returned", !.canvas = canvas]
  /\ UNCHANGED orchVars
  /\ UNCHANGED clientVars
  /\ UNCHANGED cropCall
  /\ UNCHANGED appVars

(***************************************************************************)
(* PatternExtractor (src/src/services/PatternExtractor.js).                *)
(***************************************************************************)
\* one RGBA pixel of an ImageData buffer
Pixel(r, g, b, a) == [r |-> r, g |-> g, b |-> b, a |-> a]

\* the pixel at column x and row y (from 0) of a row-major buffer
PixelAt(pixels, width, x, y) == pixels[y * width + x + 1]

SetMin(S) == CHOOSE x \in S : \A y \in S : x <= y
SetMax(S) == CHOOSE x \in S : \A y \in S : x >= y

Box(left, top, right, bottom) ==
  [left |-> left, top |-> top, right |-> right, bottom |-> bottom]

\* the bounding box the scanning loops accumulate over the pixels in F
BoxAround(F) ==
  Box(SetMin({c[1] : c \in F}), SetMin({c[2] : c \in F}),
      SetMax({c[1] : c \in F}) + 1, SetMax({c[2] : c \in F}) + 1)

Coordinates(width, height) == (0 .. width - 1) \X (0 .. height - 1)

\* Math.floor(c / 32) * 32 on each channel
Quantize(p) == [r |-> (p.r \div 32) * 32, g |-> (p.g \div 32) * 32, b |-> (p.b \div 32) * 32]

\* _detectDominantColor: the quantized colour counted most often among the
\* pixels sampled every 10th column and row with alpha > 200; of several,
\* the one sampled first; black when none is sampled
_detectDominantColor(pixels, width, height) ==
  LET idx == SelectSeq([i \in 1 .. width * height |-> i - 1],
                       LAMBDA i : /\ (i % width) % 10 = 0
                                  /\ (i \div width) % 10 = 0
                                  /\ pixels[i + 1].a > 200)
      key(k) == Quantize(pixels[idx[k] + 1])
      count(k) == Cardinality({j \in 1 .. Len(idx) : key(j) = key(k)})
      first(k) == \A j \in 1 .. k - 1 : key(j) # key(k)
  IN
  IF Len(idx) = 0 THEN [r |-> 0, g |-> 0, b |-> 0]
  ELSE key(CHOOSE k \in 1 .. Len(idx) :
             /\ first(k)
             /\ \A j \in 1 .. Len(idx) : count(j) <= count(k)
             /\ \A j \in 1 .. k - 1 : first(j) => count(j) < count(k))

\* the square of _colorDistance
ColorDistanceSquared(c1, c2) ==
  (c1.r - c2.r) * (c1.r - c2.r) + (c1.g - c2.g) * (c1.g - c2.g)
    + (c1.b - c2.b) * (c1.b - c2.b)

\* _detectPatternBoundsBasic: the box of the pixels with alpha > threshold
_detectPatternBoundsBasic(pixels, width, height, threshold) ==
  LET F == {c \in Coordinates(width, height) :
              PixelAt(pixels, width, c[1], c[2]).a > threshold}
  IN IF F = {} THEN <<>> ELSE <<BoxAround(F)>>

\* the pattern taken to be every pixel with alpha > threshold, whatever
\* its colour
PatternPixelsAnyColour(pixels, width, height, threshold) ==
  {c \in Coordinates(width, height) :
     PixelAt(pixels, width, c[1], c[2]).a > threshold}

\* the pixels _detectPatternBounds takes for the pattern: alpha > threshold
\* and _colorDistance to the dominant colour > 30
PatternPixels(pixels, width, height, threshold) ==
  LET dominantColor == _detectDominantColor(pixels, width, height)
  IN {c \in Coordinates(width, height) :
        /\ PixelAt(pixels, width, c[1], c[2]).a > threshold
        /\ ColorDistanceSquared(PixelAt(pixels, width, c[1], c[2]), dominantColor)
             > 30 * 30}

\* _detectPatternBounds without the fallback to the basic strategy
DetectPatternBoundsNoFallback(pixels, width, height, threshold) ==
  LET F == PatternPixels(pixels, width, height, threshold)
  IN IF F = {} THEN <<>> ELSE <<BoxAround(F)>>

\* _detectPatternBounds with right and bottom not made exclusive
DetectPatternBoundsInclusive(pixels, width, height, threshold) ==
  LET F == PatternPixels(pixels, width, height, threshold)
  IN IF F = {}
     THEN _detectPatternBoundsBasic(pixels, width, height, threshold)
     ELSE <<[BoxAround(F) EXCEPT !.right = @ - 1, !.bottom = @ - 1]>>

_detectPatternBounds(pixels, width, height, threshold) ==
  LET F == PatternPixels(pixels, width, height, threshold)
  IN IF F = {}
     THEN _detectPatternBoundsBasic(pixels, width, height, threshold)
     ELSE <<BoxAround(F)>>

\* which strategy gives the box of _detectPatternBounds
StrategyOf(pixels, width, height, threshold) ==
  IF PatternPixels(pixels, width, height, threshold) # {} THEN "colour"
  ELSE IF _detectPatternBoundsBasic(pixels, width, height, threshold) # <<>> THEN "basic"
  ELSE "none"

\* the padding added to a box and clamped to the canvas
PaddedBounds(bounds, padding, width, height) ==
  Box(IF bounds.left - padding > 0 THEN bounds.left - padding ELSE 0,
      IF bounds.top - padding > 0 THEN bounds.top - padding ELSE 0,
      IF bounds.right + padding < width THEN bounds.right + padding ELSE width,
      IF bounds.bottom + padding < height THEN bounds.bottom + padding ELSE height)

\* _calculateRowDensity: per row the pixels with alpha > 10, over the width
_calculateRowDensity(pixels, width, height) ==
  [y \in 1 .. height |->
     [n |-> Cardinality({x \in 0 .. width - 1 : PixelAt(pixels, width, x, y - 1).a > 10}),
      d |-> width]]

\* _calculateColumnDensity: per column, over the height
_calculateColumnDensity(pixels, width, height) ==
  [x \in 1 .. width |->
     [n |-> Cardinality({y \in 0 .. height - 1 : PixelAt(pixels, width, x - 1, y).a > 10}),
      d |-> height]]

\* density > threshold, both rationals
Exceeds(q, t) == q.n * t.d > t.n * q.d

\* _findContentBounds: first and last row and column whose density exceeds
\* the threshold; where none does, the initial values 0 and length - 1 stay
_findContentBounds(rowDensity, colDensity, threshold) ==
  LET rows == {i \in 1 .. Len(rowDensity) : Exceeds(rowDensity[i], threshold)}
      cols == {i \in 1 .. Len(colDensity) : Exceeds(colDensity[i], threshold)}
      top == IF rows = {} THEN 0 ELSE SetMin(rows) - 1
      bottom == IF rows = {} THEN Len(rowDensity) - 1 ELSE SetMax(rows)
      left == IF cols = {} THEN 0 ELSE SetMin(cols) - 1
      right == IF cols = {} THEN Len(colDensity) - 1 ELSE SetMax(cols)
  IN IF top >= bottom \/ left >= right THEN <<>>
     ELSE <<Box(left, top, right, bottom)>>

\* _detectPatternBounds(pixels, width, height, threshold) called directly
DetectPatternBounds ==
  /\ cropCall.pc = "called"
  /\ cropCall.op = "detect"
  /\ cropCall' =
       [cropCall EXCEPT
          !.pc = "returned",
          !.dominant = <<_detectDominantColor(cropCall.pixels, cropCall.width,
                                              cropCall.height)>>,
          !.bounds = _detectPatternBounds(cropCall.pixels, cropCall.width,
                                          cropCall.height, cropCall.threshold),
          !.strategy = StrategyOf(cropCall.pixels, cropCall.width,
                                  cropCall.height, cropCall.threshold)]
  /\ UNCHANGED orchVars
  /\ UNCHANGED clientVars
  /\ UNCHANGED canvasCall
  /\ UNCHANGED appVars

\* what extractPattern(image, {padding, threshold}) does to the call record
ExtractPatternOutcome(c, threshold) ==
  LET bounds == _detectPatternBounds(c.pixels, c.width, c.height, threshold)
  IN [c EXCEPT
        !.pc = "returned",
        !.dominant = <<_detectDominantColor(c.pixels, c.width, c.height)>>,
        !.bounds = bounds,
        !.strategy = StrategyOf(c.pixels, c.width, c.height, threshold),
        !.crop = IF bounds = <<>> THEN <<>>
                 ELSE <<PaddedBounds(bounds[1], c.padding, c.width, c.height)>>]

\* extractPattern(image, options): the uncropped canvas is returned when no
\* bounds are detected
ExtractPattern ==
  /\ cropCall.pc = "called"
  /\ cropCall.op = "extractPattern"
  /\ cropCall' = ExtractPatternOutcome(cropCall, cropCall.threshold)
  /\ UNCHANGED orchVars
  /\ UNCHANGED clientVars
  /\ UNCHANGED canvasCall
  /\ UNCHANGED appVars

\* smartCrop(image, options): crops by the density bounds, or hands over to
\* extractPattern(image, {padding}) (default threshold 10) when there are none
SmartCrop ==
  /\ cropCall.pc = "called"
  /\ cropCall.op = "smartCrop"
  /\ LET density == _findContentBounds(
                      _calculateRowDensity(cropCall.pixels, cropCall.width, cropCall.height),
                      _calculateColumnDensity(cropCall.pixels, cropCall.width, cropCall.height),
                      cropCall.densityThreshold)
     IN IF density = <<>>
        THEN cropCall' = ExtractPatternOutcome(cropCall, 10)
        ELSE cropCall' =
               [cropCall EXCEPT
                  !.pc = "returned",
                  !.density = density,
                  !.strategy = "density",
                  !.crop = <<PaddedBounds(density[1], cropCall.padding,
                                          cropCall.width, cropCall.height)>>]
  /\ UNCHANGED orchVars
  /\ UNCHANGED clientVars
  /\ UNCHANGED canvasCall
  /\ UNCHANGED appVars

(***************************************************************************)
(* The cache.                                                              *)
(***************************************************************************)
\* `${file.name}-${file.size}-${file.lastModified}-${file.type}`
_generateCacheKey(file) ==
  file.name \o "-" \o ToString(file.size) \o "-" \o ToString(file.lastModified)
            \o "-" \o file.type

NoKeyCall == [pc |-> "idle", files |-> <<>>, keys |-> <<>>]

\* _generateCacheKey applied to each of two files
GenerateCacheKeys ==
  /\ keyCall.pc = "called"
  /\ keyCall' = [keyCall EXCEPT
                   !.pc = "returned",
                   !.keys = <<_generateCacheKey(keyCall.files[1]),
                              _generateCacheKey(keyCall.files[2])>>]
  /\ UNCHANGED orchVars
  /\ UNCHANGED clientVars
  /\ UNCHANGED utilVars
  /\ UNCHANGED <<env, blobCall>>
  /\ UNCHANGED <<verdict, retryCall, resources>>
  /\ UNCHANGED <<app, appHist>>

\* Map.get: the position of the key, 0 when absent
IndexOf(c, key) ==
  IF \E i \in 1 .. Len(c) : c[i].key = key
  THEN CHOOSE i \in 1 .. Len(c) : c[i].key = key
  ELSE 0

\* Map.delete
MapDelete(c, key) == SelectSeq(c, LAMBDA e : e.key # key)

\* Map.set: a resident key keeps its position, a new one goes last
MapSet(c, key, entry) ==
  IF IndexOf(c, key) # 0
  THEN [c EXCEPT ![IndexOf(c, key)] = entry]
  ELSE Append(c, entry)

\* the entry is older than the expiry window
Expired(entry, t) == t - entry.timestamp > CACHE_EXPIRATION_TIME

\* _getCachedResult with the expiry comparison reversed
GetCachedResultReversed(c, key, t) ==
  LET i == IndexOf(c, key) IN
  IF i = 0 THEN <<<<>>, c>>
  ELSE IF ~Expired(c[i], t) THEN <<<<>>, MapDelete(c, key)>>
  ELSE <<<<c[i].result>>, c>>

\* _getCachedResult without the expiry check
GetCachedResultNoExpiry(c, key, t) ==
  LET i == IndexOf(c, key) IN
  IF i = 0 THEN <<<<>>, c>> ELSE <<<<c[i].result>>, c>>

\* _getCachedResult: <<the result or <<>>, the cache afterwards>>
_getCachedResult(c, key, t) ==
  LET i == IndexOf(c, key) IN
  IF i = 0 THEN <<<<>>, c>>
  ELSE IF Expired(c[i], t) THEN <<<<>>, MapDelete(c, key)>>
  ELSE <<<<c[i].result>>, c>>

\* _cacheResult evicting only above the capacity (> for >=)
CacheResultLate(c, key, result, t) ==
  LET c1 == IF Len(c) > MAX_CACHE_SIZE THEN MapDelete(c, c[1].key) ELSE c
  IN MapSet(c1, key, [key |-> key, result |-> result, timestamp |-> t])

\* _cacheResult: the cache afterwards
_cacheResult(c, key, result, t) ==
  LET c1 == IF Len(c) >= MAX_CACHE_SIZE THEN MapDelete(c, c[1].key) ELSE c
  IN MapSet(c1, key, [key |-> key, result |-> result, timestamp |-> t])

CacheKeys(c) == [i \in 1 .. Len(c) |-> c[i].key]

(***************************************************************************)
(* processImage.                                                           *)
(***************************************************************************)
NoBlob == [isBlob |-> FALSE, type |-> "", content |-> NoPixels, tag |-> ""]

IdleCall ==
  [pc |-> "idle", input |-> NullInput, startTime |-> 0, cacheKey |-> "",
   originalDataUrl |-> NoUrl, image |-> NoPixels, upload |-> NoBlob,
   passed |-> <<>>, options |-> <<>>, extracted |-> NoBlob, finalDataUrl |-> NoUrl,
   result |-> <<>>, error |-> <<>>,
   \* history of the call: the steps it has completed, its calls of the
   \* client, what its cache lookup met, whether a client was configured
   trace |-> <<>>, invoked |-> 0, lookup |-> "none", hadApi |-> FALSE,
   \* the returned object: is it the very object the cache entry holds, and
   \* has the caller written to it
   shared |-> FALSE, written |-> FALSE]

\* what a lookup of key at time t meets: no entry, an entry older than the
\* expiry window, or a fresh one
LookupMeets(c, key, t) ==
  IF \A i \in 1 .. Len(c) : c[i].key # key THEN "absent"
  ELSE IF \E i \in 1 .. Len(c) :
            c[i].key = key /\ t - c[i].timestamp > CACHE_EXPIRATION_TIME
  THEN "expired"
  ELSE "fresh"

\* the opening checks without the check of the API service
ValidateInputNoApiCheck(input, apiSet) ==
  IF ~IsFile(input)
  THEN <<CreateError(PROCESSING_ERROR, API_BAD_REQUEST, FALSE)>>
  ELSE <<>>

\* the checks that open processImage: <<>> or the error they throw
ValidateInput(input, apiSet) ==
  IF ~IsFile(input)
  THEN <<CreateError(PROCESSING_ERROR, API_BAD_REQUEST, FALSE)>>
  ELSE IF ~apiSet
  THEN <<CreateError(API_ERROR, API_SERVICE_UNAVAILABLE, FALSE)>>
  ELSE <<>>

\* the catch block of processImage: the value that leaves the call
CatchHandler(e) ==
  IF e.nullish THEN RawError   \* reading error.type throws a TypeError
  ELSE IF e.type # "" /\ e.code # "" THEN e
  ELSE CreateError(PROCESSING_ERROR, CANVAS_ERROR, FALSE)

\* the options argument of processImage's call of removeBackground
ProcessImageOptions ==
  [size |-> "auto", type |-> "auto", format |-> "png",
   crop |-> ENABLE_PATTERN_EXTRACTION,
   crop_margin |-> ToString(PATTERN_PADDING) \o "px"]

\* the defaults removeBackground spreads the options over
DefaultApiOptions ==
  [size |-> "auto", type |-> "auto", format |-> "png",
   crop |-> TRUE, crop_margin |-> "20px"]

\* removeBackground: the apiOptions object it hands to the API service
apiOptions(options) ==
  LET defaults == DefaultApiOptions
  IN [k \in DOMAIN defaults \cup DOMAIN options |->
        IF k \in DOMAIN options THEN options[k] ELSE defaults[k]]

\* the options processImage passes, merged with removeBackground's defaults
ApiOptions == apiOptions(ProcessImageOptions)

\* the test with the threshold itself counted as too large
NeedsCompressionAtThreshold(image) ==
  image.w >= MAX_IMAGE_WIDTH \/ image.h >= MAX_IMAGE_HEIGHT

\* image.width > MAX_IMAGE_WIDTH || image.height > MAX_IMAGE_HEIGHT
NeedsCompression(image) == image.w > MAX_IMAGE_WIDTH \/ image.h > MAX_IMAGE_HEIGHT

MkResult(orig, extracted, w, h, time, fromCache) ==
  [originalDataUrl |-> orig, extractedDataUrl |-> extracted, width |-> w,
   height |-> h, processingTime |-> time, fromCache |-> fromCache]

Running(p) == calls[p].pc \notin {"idle", "done", "failed"}

\* the call c once it has settled: its locals are gone, its history stays
Settled(c, pc, result, error, steps) ==
  [IdleCall EXCEPT !.pc = pc, !.result = result, !.error = error,
                   !.input = c.input, !.cacheKey = c.cacheKey,
                   !.trace = c.trace \o steps, !.invoked = c.invoked,
                   !.lookup = c.lookup, !.hadApi = c.hadApi]

\* the call leaves through the catch block
Fail(p, caught, steps) ==
  calls' = [calls EXCEPT ![p] =
              Settled(calls[p], "failed", <<>>, <<CatchHandler(caught)>>, steps)]

\* processImage up to its first await: validation and cache lookup
Start(p, input) ==
  /\ calls[p].pc = "idle"
  /\ ncalls < MaxCalls
  /\ ncalls' = ncalls + 1
  /\ nextFresh' = IF input = PoolFile(nextFresh) THEN nextFresh + 1 ELSE nextFresh
  /\ LET c0 == [IdleCall EXCEPT !.input = input, !.startTime = now, !.hadApi = api]
         bad == ValidateInput(input, api)
     IN IF bad # <<>>
        THEN /\ calls' = [calls EXCEPT ![p] =
                            Settled(c0, "failed", <<>>, <<CatchHandler(bad[1])>>,
                                    <<"validate">>)]
             /\ UNCHANGED <<cache, purged>>
        ELSE LET key == _generateCacheKey(input)
                 look == _getCachedResult(cache, key, now)
                 c1 == [c0 EXCEPT !.cacheKey = key,
                                  !.lookup = LookupMeets(cache, key, now)]
             IN /\ cache' = look[2]
                /\ purged' = (purged \/ Len(look[2]) # Len(cache))
                /\ IF look[1] # <<>>
                   THEN LET r == [look[1][1] EXCEPT !.processingTime = now - c0.startTime,
                                                    !.fromCache = TRUE]
                        IN calls' = [calls EXCEPT ![p] =
                                       Settled(c1, "done", <<r>>, <<>>,
                                               <<"validate", "lookup", "return">>)]
                   ELSE calls' = [calls EXCEPT ![p] =
                                    [c1 EXCEPT !.pc = "readFile",
                                               !.trace = <<"validate", "lookup">>]]
  /\ UNCHANGED <<api, now, inserted, prev>>
  /\ UNCHANGED clientVars
  /\ UNCHANGED utilVars
  /\ UNCHANGED appVars

\* await this._fileToDataUrl(imageFile)
ReadFileDone(p, ok) ==
  /\ calls[p].pc = "readFile"
  /\ IF ok
     THEN calls' = [calls EXCEPT ![p].pc = "decodeOriginal",
                                 ![p].originalDataUrl = DataUrlOf(FileBlob(calls[p].input)),
                                 ![p].trace = Append(calls[p].trace, "readFile")]
     ELSE Fail(p, CreateError(PROCESSING_ERROR, IMAGE_LOAD_ERROR, FALSE), <<>>)
  /\ UNCHANGED <<api, cache, now, ncalls, nextFresh, inserted, purged, prev>>
  /\ UNCHANGED clientVars
  /\ UNCHANGED utilVars
  /\ UNCHANGED appVars

\* await this.canvasUtil.loadImage(originalDataUrl), then _prepareImageForApi
\* up to the await inside compressImage
DecodeOriginalDone(p) ==
  /\ calls[p].pc = "decodeOriginal"
  /\ LET image == calls[p].originalDataUrl.data
         canvas == resizeImage(image, MAX_IMAGE_WIDTH, MAX_IMAGE_HEIGHT)
     IN IF image = NoPixels
        THEN Fail(p, RawError, <<>>)
        ELSE IF ~NeedsCompression(image)
        THEN calls' = [calls EXCEPT ![p].pc = "prepared",
                                    ![p].image = image,
                                    ![p].upload = FileBlob(calls[p].input),
                                    ![p].trace = Append(calls[p].trace, "decodeOriginal")]
        ELSE IF ~CanvasOk(canvas.w, canvas.h)
        THEN Fail(p, CreateError(PROCESSING_ERROR, CANVAS_ERROR, FALSE), <<"decodeOriginal">>)
        ELSE calls' = [calls EXCEPT ![p].pc = "compressing",
                                    ![p].image = image,
                                    ![p].upload = [isBlob |-> TRUE, type |-> OUTPUT_FORMAT,
                                                   content |-> canvas, tag |-> "compressed"],
                                    ![p].trace = Append(calls[p].trace, "decodeOriginal")]
  /\ UNCHANGED <<api, cache, now, ncalls, nextFresh, inserted, purged, prev>>
  /\ UNCHANGED clientVars
  /\ UNCHANGED utilVars
  /\ UNCHANGED appVars

\* await this.canvasUtil.imageToBlob(resizedCanvas, ...) inside compressImage
CompressDone(p, ok) ==
  /\ calls[p].pc = "compressing"
  /\ IF ok
     THEN calls' = [calls EXCEPT ![p].pc = "prepared",
                                 ![p].trace = Append(calls[p].trace, "compress")]
     ELSE Fail(p, CreateError(PROCESSING_ERROR, CANVAS_ERROR, FALSE), <<>>)
  /\ UNCHANGED <<api, cache, now, ncalls, nextFresh, inserted, purged, prev>>
  /\ UNCHANGED clientVars
  /\ UNCHANGED utilVars
  /\ UNCHANGED appVars

\* this.removeBackground(imageBlob, options) up to the call of the client
InvokeClient(p) ==
  /\ calls[p].pc = "prepared"
  /\ IF ~api
     THEN Fail(p, CreateError(API_ERROR, API_SERVICE_UNAVAILABLE, FALSE), <<>>)
     ELSE calls' = [calls EXCEPT ![p].pc = "calling",
                                 ![p].passed = <<ProcessImageOptions>>,
                                 ![p].options = <<ApiOptions>>,
                                 ![p].invoked = calls[p].invoked + 1,
                                 ![p].trace = Append(calls[p].trace, "invokeClient")]
  /\ UNCHANGED <<api, cache, now, ncalls, nextFresh, inserted, purged, prev>>
  /\ UNCHANGED clientVars
  /\ UNCHANGED utilVars
  /\ UNCHANGED appVars

\* the client resolves and the result is cached before it is decoded
ClientResolvesCacheEarly(p, v) ==
  /\ calls[p].pc = "calling"
  /\ IF v.isBlob
     THEN /\ calls' = [calls EXCEPT ![p].pc = "readResult",
                                    ![p].extracted = v,
                                    ![p].trace = calls[p].trace \o
                                                   <<"clientReturned", "cacheWrite">>]
          /\ cache' = _cacheResult(cache, calls[p].cacheKey,
                                   MkResult(calls[p].originalDataUrl, DataUrlOf(v),
                                            0, 0, now - calls[p].startTime, FALSE),
                                   now)
     ELSE /\ Fail(p, CreateError(PROCESSING_ERROR, CANVAS_ERROR, FALSE), <<"clientReturned">>)
          /\ UNCHANGED cache
  /\ UNCHANGED <<api, now, ncalls, nextFresh, inserted, purged, prev>>
  /\ UNCHANGED clientVars
  /\ UNCHANGED utilVars
  /\ UNCHANGED appVars

\* the client resolves; blobToDataUrl checks the value and starts reading it
ClientResolves(p, v) ==
  /\ calls[p].pc = "calling"
  /\ IF v.isBlob
     THEN calls' = [calls EXCEPT ![p].pc = "readResult",
                                 ![p].extracted = v,
                                 ![p].trace = Append(calls[p].trace, "clientReturned")]
     ELSE Fail(p, CreateError(PROCESSING_ERROR, CANVAS_ERROR, FALSE), <<"clientReturned">>)
  /\ UNCHANGED <<api, cache, now, ncalls, nextFresh, inserted, purged, prev>>
  /\ UNCHANGED clientVars
  /\ UNCHANGED utilVars
  /\ UNCHANGED appVars

\* the client rejects
ClientRejects(p, e) ==
  /\ calls[p].pc = "calling"
  /\ Fail(p, e, <<>>)
  /\ UNCHANGED <<api, cache, now, ncalls, nextFresh, inserted, purged, prev>>
  /\ UNCHANGED clientVars
  /\ UNCHANGED utilVars
  /\ UNCHANGED appVars

\* await this.blobToDataUrl(extractedBlob): the FileReader finishes
ReadResultDone(p, ok) ==
  /\ calls[p].pc = "readResult"
  /\ IF ok
     THEN calls' = [calls EXCEPT ![p].pc = "decodeResult",
                                 ![p].finalDataUrl = DataUrlOf(calls[p].extracted),
                                 ![p].trace = Append(calls[p].trace, "readResult")]
     ELSE Fail(p, CreateError(PROCESSING_ERROR, CANVAS_ERROR, FALSE), <<>>)
  /\ UNCHANGED <<api, cache, now, ncalls, nextFresh, inserted, purged, prev>>
  /\ UNCHANGED clientVars
  /\ UNCHANGED utilVars
  /\ UNCHANGED appVars

\* await this.canvasUtil.loadImage(finalDataUrl), then the result is built,
\* cached and returned
DecodeResultDone(p) ==
  /\ calls[p].pc = "decodeResult"
  /\ LET image == calls[p].finalDataUrl.data
         r == MkResult(calls[p].originalDataUrl, calls[p].finalDataUrl, image.w, image.h,
                       now - calls[p].startTime, FALSE)
     IN IF image = NoPixels
        THEN /\ Fail(p, RawError, <<>>)
             /\ UNCHANGED <<cache, inserted>>
        ELSE /\ calls' = [calls EXCEPT ![p] =
                            [Settled(calls[p], "done", <<r>>, <<>>,
                                     <<"decodeResult", "cacheWrite", "return">>)
                               EXCEPT !.shared = TRUE]]
             /\ cache' = _cacheResult(cache, calls[p].cacheKey, r, now)
             /\ inserted' = Append(inserted, calls[p].cacheKey)
  /\ UNCHANGED <<api, now, ncalls, nextFresh, purged, prev>>
  /\ UNCHANGED clientVars
  /\ UNCHANGED utilVars
  /\ UNCHANGED appVars

\* removeBackground(imageBlob, options) called on the service itself, up
\* to its await of the API service
ServiceRemoveBackground(p, blob, options) ==
  /\ calls[p].pc = "idle"
  /\ ncalls < MaxCalls
  /\ ncalls' = ncalls + 1
  /\ calls' = [calls EXCEPT ![p] =
       IF ~api
       THEN [IdleCall EXCEPT !.pc = "blobFailed", !.upload = blob,
                             !.passed = <<options>>,
                             !.error = <<CreateError(API_ERROR, API_SERVICE_UNAVAILABLE, FALSE)>>]
       ELSE [IdleCall EXCEPT !.pc = "awaitingApi", !.upload = blob,
                             !.passed = <<options>>,
                             !.options = <<apiOptions(options)>>,
                             !.invoked = 1, !.hadApi = TRUE]]
  /\ UNCHANGED <<api, cache, now, nextFresh, inserted, purged, prev>>
  /\ UNCHANGED clientVars
  /\ UNCHANGED utilVars
  /\ UNCHANGED appVars

\* the API service settles: removeBackground returns its Blob or lets its
\* error through
ApiSettles(p, ok, v, e) ==
  /\ calls[p].pc = "awaitingApi"
  /\ calls' = [calls EXCEPT ![p].pc = IF ok THEN "blobReturned" ELSE "blobFailed",
                            ![p].extracted = IF ok THEN v ELSE NoBlob,
                            ![p].error = IF ok THEN <<>> ELSE <<e>>]
  /\ UNCHANGED <<api, cache, now, ncalls, nextFresh, inserted, purged, prev>>
  /\ UNCHANGED clientVars
  /\ UNCHANGED utilVars
  /\ UNCHANGED appVars

\* the caller has taken the Blob or the error of removeBackground
TakeBlob(p) ==
  /\ calls[p].pc \in {"blobReturned", "blobFailed"}
  /\ calls' = [calls EXCEPT ![p] = IdleCall]
  /\ UNCHANGED <<api, cache, now, ncalls, nextFresh, inserted, purged, prev>>
  /\ UNCHANGED clientVars
  /\ UNCHANGED utilVars
  /\ UNCHANGED appVars

\* the caller has taken the result or the error of the settled call
Settle(p) ==
  /\ calls[p].pc \in {"done", "failed"}
  /\ calls' = [calls EXCEPT ![p] = IdleCall]
  /\ prev' = IF calls[p].pc = "done"
             THEN <<[key |-> calls[p].cacheKey, result |-> calls[p].result[1],
                     invoked |-> calls[p].invoked]>>
             ELSE <<>>
  /\ UNCHANGED <<api, cache, now, ncalls, nextFresh, inserted, purged>>
  /\ UNCHANGED clientVars
  /\ UNCHANGED utilVars
  /\ UNCHANGED appVars

\* what a caller writes into a result it has received
Scribble == [mime |-> "text/plain", data |-> NoPixels, tag |-> "scribbled"]

\* the caller assigns to extractedDataUrl of the object processImage
\* returned; on a miss that object is the one the cache entry holds
MutateResult(p) ==
  /\ calls[p].pc = "done"
  /\ ~calls[p].written
  /\ calls' = [calls EXCEPT ![p].result[1].extractedDataUrl = Scribble,
                            ![p].written = TRUE]
  /\ LET i == IndexOf(cache, calls[p].cacheKey)
     IN cache' = IF calls[p].shared /\ i # 0
                 THEN [cache EXCEPT ![i].result.extractedDataUrl = Scribble]
                 ELSE cache
  /\ UNCHANGED <<api, now, ncalls, nextFresh, inserted, purged, prev>>
  /\ UNCHANGED clientVars
  /\ UNCHANGED utilVars
  /\ UNCHANGED appVars

\* clearCache()
ClearCache ==
  /\ cache # <<>>
  /\ cache' = <<>>
  /\ inserted' = <<>>
  /\ prev' = <<>>
  /\ UNCHANGED <<api, now, calls, ncalls, nextFresh, purged>>
  /\ UNCHANGED clientVars
  /\ UNCHANGED utilVars
  /\ UNCHANGED appVars

\* setBackgroundRemovalApi(apiService)
setBackgroundRemovalApi(b) ==
  /\ api # b
  /\ api' = b
  /\ UNCHANGED <<cache, now, calls, ncalls, nextFresh, inserted, purged, prev>>
  /\ UNCHANGED clientVars
  /\ UNCHANGED utilVars
  /\ UNCHANGED appVars

\* the clock values the model visits after time 0: one expiry window later
\* and up to MaxSlack milliseconds after that
ClockValue(t) ==
  /\ t >= CACHE_EXPIRATION_TIME
  /\ t <= CACHE_EXPIRATION_TIME + MaxSlack

\* the clock advances by d milliseconds
Tick(d) ==
  /\ ClockValue(now + d)
  /\ now' = now + d
  /\ UNCHANGED <<api, cache, calls, ncalls, nextFresh, inserted, purged, prev>>
  /\ UNCHANGED clientVars
  /\ UNCHANGED utilVars
  /\ UNCHANGED appVars

(***************************************************************************)
(* RemoveBgService.                                                        *)
(***************************************************************************)
\* the constructor: a missing (or zero) setting takes the default
RemoveBgService(config) ==
  [config |-> config,
   maxRetries |-> IF config.maxRetries # 0 THEN config.maxRetries
                  ELSE API_RETRY_MAX_ATTEMPTS,
   initialDelay |-> IF config.initialDelay # 0 THEN config.initialDelay
                    ELSE API_RETRY_INITIAL_DELAY,
   backoffMultiplier |-> IF config.backoffMultiplier # 0 THEN config.backoffMultiplier
                         ELSE API_RETRY_BACKOFF_MULTIPLIER]

\* the values removeBackground is called with
ImageArgs == {"blob", "emptyBlob", "string", "null"}

\* imageBlob && imageBlob instanceof Blob
IsBlobArg(a) == a \in {"blob", "emptyBlob"}

\* the HTTP statuses of the error responses that are followed
Statuses == {304, 400, 401, 402, 403, 404, 429, 499, 500, 501, 503, 599}

Answer(kind, status) == [kind |-> kind, status |-> status]

\* how one post can end: a Blob, a 2xx response without a Blob, an error
\* response, no response, or an error before the request was sent
Answers ==
  {Answer("blob", 200), Answer("badData", 200), Answer("noResponse", 0), Answer("setup", 0)}
    \cup {Answer("status", st) : st \in Statuses}

\* _handleApiError without the default branch's retry of other 5xx statuses
HandleApiErrorNoDefaultRetry(status) ==
  CASE status = 400 -> CreateError(API_ERROR, API_BAD_REQUEST, FALSE)
    [] status \in {401, 403} -> CreateError(API_ERROR, API_KEY_INVALID, FALSE)
    [] status \in {402, 429} -> CreateError(API_ERROR, API_QUOTA_EXCEEDED, FALSE)
    [] status \in {500, 503} -> CreateError(API_ERROR, API_SERVICE_UNAVAILABLE, TRUE)
    [] OTHER -> CreateError(API_ERROR, API_SERVICE_UNAVAILABLE, FALSE)

_handleApiError(status) ==
  CASE status = 400 -> CreateError(API_ERROR, API_BAD_REQUEST, FALSE)
    [] status \in {401, 403} -> CreateError(API_ERROR, API_KEY_INVALID, FALSE)
    [] status \in {402, 429} -> CreateError(API_ERROR, API_QUOTA_EXCEEDED, FALSE)
    [] status \in {500, 503} -> CreateError(API_ERROR, API_SERVICE_UNAVAILABLE, TRUE)
    [] OTHER -> CreateError(API_ERROR, API_SERVICE_UNAVAILABLE, status >= 500)

\* the catch block of the posted operation: the error of a failed post
OperationError(answer) ==
  IF answer.kind = "status" THEN _handleApiError(answer.status)
  ELSE IF answer.kind = "noResponse"
  THEN CreateError(NETWORK_ERROR, NETWORK_TIMEOUT, TRUE)
  ELSE CreateError(PROCESSING_ERROR, API_BAD_REQUEST, FALSE)

RECURSIVE Pow(_, _)
Pow(b, e) == IF e = 0 THEN 1 ELSE b * Pow(b, e - 1)

\* the delay with the exponent one too high
BackoffDelayShifted(c, a) == c.initialDelay * Pow(c.backoffMultiplier, a)

\* this.initialDelay * Math.pow(this.backoffMultiplier, attempt - 1)
BackoffDelay(c, a) == c.initialDelay * Pow(c.backoffMultiplier, a - 1)

\* the catch block of the loop giving up one attempt early
RethrowsEarly(e, a, c) == ~IsRetryableFlag(e) \/ a >= c.maxRetries - 1

\* the catch block of the loop without the check of error.retryable
RethrowsOnlyAtEnd(e, a, c) == a = c.maxRetries

\* the catch block of the loop without the check of the last attempt
RethrowsNotAtEnd(e, a, c) == ~IsRetryableFlag(e)

\* the catch block of the loop rethrows: the error is not retryable, or
\* this was the last attempt
Rethrows(e, a, c) == ~IsRetryableFlag(e) \/ a = c.maxRetries

\* removeBackground(imageBlob, options) up to the first post
RemoveBackground(image) ==
  /\ rpc = "idle"
  /\ imageBlob' = <<image>>
  /\ IF ~IsBlobArg(image)
     THEN /\ rpc' = "thrown"
          /\ thrown' = <<CreateError(PROCESSING_ERROR, API_BAD_REQUEST, FALSE)>>
          /\ UNCHANGED <<attempt, posts>>
     ELSE /\ attempt' = 1
          /\ IF 1 <= cfg.maxRetries
             THEN /\ rpc' = "posting"
                  /\ posts' = posts + 1
                  /\ UNCHANGED thrown
             ELSE /\ rpc' = "thrown"
                  /\ thrown' = <<Nullish>>
                  /\ UNCHANGED posts
  /\ UNCHANGED <<cfg, lastError, sleeps, responses>>
  /\ UNCHANGED orchVars
  /\ UNCHANGED utilVars
  /\ UNCHANGED appVars

\* the post settles: the operation returns the Blob or throws, and the loop
\* returns, rethrows or starts to sleep
PostSettles(answer) ==
  /\ rpc = "posting"
  /\ responses' = Append(responses, answer)
  /\ IF answer.kind = "blob"
     THEN /\ rpc' = "returned"
          /\ UNCHANGED <<lastError, thrown, sleeps>>
     ELSE LET e == OperationError(answer) IN
          /\ lastError' = <<e>>
          /\ IF Rethrows(e, attempt, cfg)
             THEN /\ rpc' = "thrown"
                  /\ thrown' = <<e>>
                  /\ UNCHANGED sleeps
             ELSE /\ rpc' = "sleeping"
                  /\ sleeps' = Append(sleeps, BackoffDelay(cfg, attempt))
                  /\ UNCHANGED thrown
  /\ UNCHANGED <<cfg, attempt, posts, imageBlob>>
  /\ UNCHANGED orchVars
  /\ UNCHANGED utilVars
  /\ UNCHANGED appVars

\* the sleep ends: the next round of the loop posts again
SleepDone ==
  /\ rpc = "sleeping"
  /\ attempt' = attempt + 1
  /\ IF attempt + 1 <= cfg.maxRetries
     THEN /\ rpc' = "posting"
          /\ posts' = posts + 1
          /\ UNCHANGED thrown
     ELSE /\ rpc' = "thrown"
          /\ thrown' = lastError
          /\ UNCHANGED posts
  /\ UNCHANGED <<cfg, lastError, sleeps, responses, imageBlob>>
  /\ UNCHANGED orchVars
  /\ UNCHANGED utilVars
  /\ UNCHANGED appVars

\* the client as it is between two calls
ClientAtRest ==
  /\ rpc' = "idle"
  /\ attempt' = 0
  /\ lastError' = <<>>
  /\ thrown' = <<>>
  /\ posts' = 0
  /\ sleeps' = <<>>
  /\ responses' = <<>>
  /\ imageBlob' = <<>>
  /\ UNCHANGED cfg

\* processImage's await of removeBackground ends with the Blob the client
\* returned; blobToDataUrl checks it and starts reading it
ApiReturns(p, v) ==
  /\ calls[p].pc = "calling"
  /\ rpc = "returned"
  /\ calls' = [calls EXCEPT ![p].pc = "readResult",
                            ![p].extracted = v,
                            ![p].trace = Append(calls[p].trace, "clientReturned")]
  /\ ClientAtRest
  /\ UNCHANGED <<api, cache, now, ncalls, nextFresh, inserted, purged, prev>>
  /\ UNCHANGED utilVars
  /\ UNCHANGED appVars

\* processImage's await of removeBackground ends with the error the client
\* threw
ApiThrows(p) ==
  /\ calls[p].pc = "calling"
  /\ rpc = "thrown"
  /\ Fail(p, thrown[1], <<>>)
  /\ ClientAtRest
  /\ UNCHANGED <<api, cache, now, ncalls, nextFresh, inserted, purged, prev>>
  /\ UNCHANGED utilVars
  /\ UNCHANGED appVars

(***************************************************************************)
(* ErrorRecovery: isRetryable, retry, withRetry, registerResource and      *)
(* cleanup.                                                                *)
(***************************************************************************)
\* isRetryable(error): the explicit flag when it is a boolean, else by type
\* and code (a missing code is the empty string)
isRetryable(error) ==
  IF error.nullish THEN FALSE
  ELSE IF error.hasRetryable THEN error.retryable
  ELSE IF error.type = NETWORK_ERROR THEN TRUE
  ELSE IF error.type = API_ERROR
  THEN IF error.code # ""
            /\ error.code \in {API_QUOTA_EXCEEDED, API_SERVICE_UNAVAILABLE, NETWORK_TIMEOUT}
       THEN TRUE
       ELSE IF error.code # "" /\ error.code \in {API_KEY_INVALID, API_BAD_REQUEST}
       THEN FALSE
       ELSE TRUE
  ELSE IF error.type = PROCESSING_ERROR THEN TRUE
  ELSE IF error.type = UPLOAD_ERROR THEN FALSE
  ELSE FALSE

NoVerdict == [pc |-> "idle", error |-> Nullish, result |-> FALSE]

\* one call of isRetryable
IsRetryable ==
  /\ verdict.pc = "called"
  /\ verdict' = [verdict EXCEPT !.pc = "returned", !.result = isRetryable(verdict.error)]
  /\ UNCHANGED orchVars
  /\ UNCHANGED clientVars
  /\ UNCHANGED utilVars
  /\ UNCHANGED <<env, blobCall, retryCall, resources, keyCall>>
  /\ UNCHANGED componentVars

NoRetryCall ==
  [pc |-> "idle", via |-> "", isFunction |-> FALSE, maxAttempts |-> 0,
   initialDelay |-> 0, backoffMultiplier |-> 0, attempt |-> 0,
   lastError |-> <<>>, thrown |-> <<>>, returned |-> FALSE,
   \* history: operation() calls made, what each threw, the delays slept
   invoked |-> 0, failures |-> <<>>, sleeps |-> <<>>]

\* the catch block of withRetry: both branches rethrow the error
WithRetryCatch(error) == IF ~isRetryable(error) THEN error ELSE error

\* what the call throws to its caller: retry's error, through the catch
\* block of withRetry when it was called that way
Thrown(c, error) == IF c.via = "withRetry" THEN WithRetryCatch(error) ELSE error

\* the test made one attempt too early
LastAttemptEarly(a, n) == a + 1 = n

\* attempt === maxAttempts
LastAttempt(a, n) == a = n

\* initialDelay * Math.pow(backoffMultiplier, attempt - 1)
RetryDelay(c) == c.initialDelay * Pow(c.backoffMultiplier, c.attempt - 1)

\* retry(operation, maxAttempts, initialDelay, backoffMultiplier), called
\* directly or by withRetry, up to its first await: the validation and the
\* first call of operation
retry ==
  /\ retryCall.pc = "called"
  /\ IF ~retryCall.isFunction \/ retryCall.maxAttempts < 1
     THEN retryCall' = [retryCall EXCEPT !.pc = "thrown",
                                         !.thrown = <<Thrown(retryCall, RawError)>>]
     ELSE retryCall' = [retryCall EXCEPT !.pc = "running", !.attempt = 1,
                                         !.invoked = retryCall.invoked + 1]
  /\ UNCHANGED orchVars
  /\ UNCHANGED clientVars
  /\ UNCHANGED utilVars
  /\ UNCHANGED <<env, blobCall, verdict, resources, keyCall>>
  /\ UNCHANGED componentVars

\* operation() settles: retry returns its result, or rethrows its error at
\* the last attempt, or starts to sleep
OperationSettles(ok, error) ==
  /\ retryCall.pc = "running"
  /\ IF ok
     THEN retryCall' = [retryCall EXCEPT !.pc = "returned", !.returned = TRUE]
     ELSE IF LastAttempt(retryCall.attempt, retryCall.maxAttempts)
     THEN retryCall' = [retryCall EXCEPT !.pc = "thrown",
                                         !.lastError = <<error>>,
                                         !.failures = Append(retryCall.failures, error),
                                         !.thrown = <<Thrown(retryCall, error)>>]
     ELSE retryCall' = [retryCall EXCEPT !.pc = "sleeping",
                                         !.lastError = <<error>>,
                                         !.failures = Append(retryCall.failures, error),
                                         !.sleeps = Append(retryCall.sleeps,
                                                           RetryDelay(retryCall))]
  /\ UNCHANGED orchVars
  /\ UNCHANGED clientVars
  /\ UNCHANGED utilVars
  /\ UNCHANGED <<env, blobCall, verdict, resources, keyCall>>
  /\ UNCHANGED componentVars

\* this.sleep(delay) resolves: the loop goes round, or ends and throws
\* lastError
RetrySleepDone ==
  /\ retryCall.pc = "sleeping"
  /\ IF retryCall.attempt + 1 <= retryCall.maxAttempts
     THEN retryCall' = [retryCall EXCEPT !.pc = "running",
                                         !.attempt = retryCall.attempt + 1,
                                         !.invoked = retryCall.invoked + 1]
     ELSE retryCall' = [retryCall EXCEPT !.pc = "thrown",
                                         !.attempt = retryCall.attempt + 1,
                                         !.thrown = <<Thrown(retryCall, retryCall.lastError[1])>>]
  /\ UNCHANGED orchVars
  /\ UNCHANGED clientVars
  /\ UNCHANGED utilVars
  /\ UNCHANGED <<env, blobCall, verdict, resources, keyCall>>
  /\ UNCHANGED componentVars

\* a resource: an object with a cleanup function (that returns or throws),
\* a string (a blob: URL or another), an object without cleanup, or null
Resource(id, kind) == [id |-> id, kind |-> kind]

ResourceKinds == {"cleanupOk", "cleanupThrows", "blobUrl", "otherString", "plainObject", "null"}

\* cleanup calls resource.cleanup() or URL.revokeObjectURL(resource)
Releasable(r) == r.kind \in {"cleanupOk", "cleanupThrows", "blobUrl"}

\* Set.prototype.add: a value already in the set keeps its place
SetAdd(registry, r) ==
  IF \E i \in 1 .. Len(registry) : registry[i] = r THEN registry
  ELSE Append(registry, r)

NoResources == [registry |-> <<>>, released |-> <<>>, cleanups |-> 0, threw |-> FALSE]

\* cleanup without this.temporaryResources.clear()
CleanupKeepsRegistry(res) ==
  [res EXCEPT !.released = res.released \o
                [i \in 1 .. Len(SelectSeq(res.registry, Releasable)) |->
                   [round |-> res.cleanups + 1,
                    id |-> SelectSeq(res.registry, Releasable)[i].id]],
              !.cleanups = res.cleanups + 1]

\* cleanup(): forEach over the set in insertion order with every release
\* inside try/catch, then clear()
cleanup(res) ==
  [res EXCEPT !.registry = <<>>,
              !.released = res.released \o
                [i \in 1 .. Len(SelectSeq(res.registry, Releasable)) |->
                   [round |-> res.cleanups + 1,
                    id |-> SelectSeq(res.registry, Releasable)[i].id]],
              !.cleanups = res.cleanups + 1,
              !.threw = FALSE]

\* registerResource(resource), of a new value or of one the set holds
RegisterResource(r) ==
  /\ Len(resources.registry) < MaxResources
  /\ resources.cleanups < MaxCleanups
  /\ resources' = [resources EXCEPT !.registry = SetAdd(resources.registry, r)]
  /\ UNCHANGED orchVars
  /\ UNCHANGED clientVars
  /\ UNCHANGED utilVars
  /\ UNCHANGED <<env, blobCall, verdict, retryCall, keyCall>>
  /\ UNCHANGED componentVars

Cleanup ==
  /\ resources.cleanups < MaxCleanups
  /\ resources' = cleanup(resources)
  /\ UNCHANGED orchVars
  /\ UNCHANGED clientVars
  /\ UNCHANGED utilVars
  /\ UNCHANGED <<env, blobCall, verdict, retryCall, keyCall>>
  /\ UNCHANGED componentVars

(***************************************************************************)
(* App.vue: upload, processing, error handling, retry and reset.           *)
(***************************************************************************)
NETWORK_OFFLINE == "NETWORK_OFFLINE"

\* data()
NoApp ==
  [uploadedFile |-> <<>>, originalImageUrl |-> <<>>, isProcessing |-> FALSE,
   processingProgress |-> 0, processingStatus |-> "idle",
   extractedImageUrl |-> <<>>, processedImage |-> <<>>, error |-> <<>>,
   showComparison |-> FALSE]

NoAppHist == [pending |-> <<>>, serviceCalls |-> <<>>, lastRetry |-> ""]

\* what ImageProcessorService.processImage rejects with, as
\* handleProcessingError sees it: the value, whether it is an Error
\* instance, whether its message mentions the network, and the status of
\* its response property (0 without one)
Rejection(error, instance, mentionsNetwork, status) ==
  [error |-> error, instance |-> instance, mentionsNetwork |-> mentionsNetwork,
   status |-> status]

\* handleError(error): an Error instance is replaced by a retryable
\* PROCESSING_ERROR
handleError(a, error, instance) ==
  [a EXCEPT !.error = IF instance
                      THEN <<CreateError(PROCESSING_ERROR, CANVAS_ERROR, TRUE)>>
                      ELSE <<error>>,
            !.processingStatus = "error",
            !.isProcessing = FALSE]

\* handleProcessingError(err): a structured error is handed on, another is
\* classified by its message and its response
handleProcessingError(a, rej) ==
  IF /\ ~rej.error.nullish /\ rej.error.type # "" /\ rej.error.code # ""
     /\ rej.error.hasRetryable
  THEN handleError(a, rej.error, rej.instance)
  ELSE IF rej.mentionsNetwork
  THEN handleError(a, CreateError(NETWORK_ERROR, NETWORK_OFFLINE, TRUE), FALSE)
  ELSE IF rej.status # 0
  THEN handleError(a,
         CASE rej.status = 401 -> CreateError(API_ERROR, API_KEY_INVALID, FALSE)
           [] rej.status = 429 -> CreateError(API_ERROR, API_QUOTA_EXCEEDED, FALSE)
           [] rej.status = 400 -> CreateError(API_ERROR, API_BAD_REQUEST, TRUE)
           [] rej.status >= 500 -> CreateError(API_ERROR, API_SERVICE_UNAVAILABLE, TRUE)
           [] OTHER -> CreateError(API_ERROR, CANVAS_ERROR, TRUE),
         FALSE)
  ELSE handleError(a, CreateError(PROCESSING_ERROR, CANVAS_ERROR, TRUE), FALSE)

\* canRetry taken to hold for every error
CanRetryAnyError(a) == a.error # <<>>

\* canRetry: this.error !== null && this.error.retryable
canRetry(a) == a.error # <<>> /\ IsRetryableFlag(a.error[1])

\* canProcess: this.originalImageUrl !== null && !this.isProcessing
canProcess(a) == a.originalImageUrl # <<>> /\ ~a.isProcessing

\* App.processImage up to its await: the component's data afterwards
ProcessImageData(a) ==
  IF a.uploadedFile = <<>>
  THEN handleError(a, CreateError(PROCESSING_ERROR, IMAGE_LOAD_ERROR, FALSE), FALSE)
  ELSE [a EXCEPT !.isProcessing = TRUE, !.error = <<>>,
                 !.processingStatus = "removing-background",
                 !.processingProgress = 0]

\* App.processImage up to its await: the call of the service it makes
ProcessImageCalls(a, h) ==
  IF a.uploadedFile = <<>> THEN h
  ELSE [h EXCEPT !.pending = Append(h.pending, a.uploadedFile[1]),
                 !.serviceCalls = Append(h.serviceCalls, a.uploadedFile[1])]

\* uploadImage(file, dataUrl)
UploadImage(file) ==
  /\ app' = [app EXCEPT !.error = <<>>, !.uploadedFile = <<file>>,
                        !.originalImageUrl = <<DataUrlOf(FileBlob(file))>>,
                        !.processingStatus = "idle",
                        !.extractedImageUrl = <<>>, !.processedImage = <<>>,
                        !.showComparison = FALSE]
  /\ UNCHANGED appHist
  /\ UNCHANGED orchVars
  /\ UNCHANGED clientVars
  /\ UNCHANGED utilVars
  /\ UNCHANGED <<env, blobCall, keyCall>>
  /\ UNCHANGED recoveryVars

\* processImage()
AppProcessImage ==
  /\ Len(appHist.serviceCalls) < MaxAppCalls
  /\ app' = ProcessImageData(app)
  /\ appHist' = ProcessImageCalls(app, appHist)
  /\ UNCHANGED orchVars
  /\ UNCHANGED clientVars
  /\ UNCHANGED utilVars
  /\ UNCHANGED <<env, blobCall, keyCall>>
  /\ UNCHANGED recoveryVars

\* the awaited service call resolves: results stored, then finally
ServiceResolves(v) ==
  /\ appHist.pending # <<>>
  /\ LET file == Head(appHist.pending)
         result == MkResult(DataUrlOf(FileBlob(file)), DataUrlOf(v),
                            v.content.w, v.content.h, 0, FALSE)
     IN app' = [app EXCEPT !.processedImage = <<result>>,
                           !.extractedImageUrl = <<result.extractedDataUrl>>,
                           !.processingStatus = "complete",
                           !.processingProgress = 100,
                           !.showComparison = TRUE,
                           !.isProcessing = FALSE]
  /\ appHist' = [appHist EXCEPT !.pending = Tail(appHist.pending)]
  /\ UNCHANGED orchVars
  /\ UNCHANGED clientVars
  /\ UNCHANGED utilVars
  /\ UNCHANGED <<env, blobCall, keyCall>>
  /\ UNCHANGED recoveryVars

\* the awaited service call rejects: handleProcessingError, then finally
ServiceRejects(rej) ==
  /\ appHist.pending # <<>>
  /\ app' = [handleProcessingError(app, rej) EXCEPT !.isProcessing = FALSE]
  /\ appHist' = [appHist EXCEPT !.pending = Tail(appHist.pending)]
  /\ UNCHANGED orchVars
  /\ UNCHANGED clientVars
  /\ UNCHANGED utilVars
  /\ UNCHANGED <<env, blobCall, keyCall>>
  /\ UNCHANGED recoveryVars

\* downloadExtracted(): nothing to download, or the download works or throws
DownloadExtracted(ok) ==
  /\ app' = IF app.extractedImageUrl = <<>>
            THEN handleError(app, CreateError(PROCESSING_ERROR, IMAGE_LOAD_ERROR, FALSE), FALSE)
            ELSE IF ok THEN app
            ELSE handleError(app, CreateError(PROCESSING_ERROR, CANVAS_ERROR, TRUE), FALSE)
  /\ UNCHANGED appHist
  /\ UNCHANGED orchVars
  /\ UNCHANGED clientVars
  /\ UNCHANGED utilVars
  /\ UNCHANGED <<env, blobCall, keyCall>>
  /\ UNCHANGED recoveryVars

\* retry(): nothing unless canRetry; else the error is cleared and
\* processImage() runs
AppRetry ==
  /\ Len(appHist.serviceCalls) < MaxAppCalls
  /\ IF ~canRetry(app)
     THEN /\ app' = app
          /\ appHist' = [appHist EXCEPT !.lastRetry = "returned"]
     ELSE /\ app' = ProcessImageData([app EXCEPT !.error = <<>>])
          /\ appHist' = [ProcessImageCalls(app, appHist) EXCEPT !.lastRetry = "processed"]
  /\ UNCHANGED orchVars
  /\ UNCHANGED clientVars
  /\ UNCHANGED utilVars
  /\ UNCHANGED <<env, blobCall, keyCall>>
  /\ UNCHANGED recoveryVars

\* reset()
AppReset ==
  /\ app' = NoApp
  /\ UNCHANGED appHist
  /\ UNCHANGED orchVars
  /\ UNCHANGED clientVars
  /\ UNCHANGED utilVars
  /\ UNCHANGED <<env, blobCall, keyCall>>
  /\ UNCHANGED recoveryVars

\* handleError(error) as the handler of the upload-error event of the
\* ImageUploader and of the download-error event of the DownloadButton
HandleErrorEvent(error, instance) ==
  /\ app' = handleError(app, error, instance)
  /\ UNCHANGED appHist
  /\ UNCHANGED orchVars
  /\ UNCHANGED clientVars
  /\ UNCHANGED utilVars
  /\ UNCHANGED <<env, blobCall, keyCall>>
  /\ UNCHANGED recoveryVars

\* the ImageProcessor shows its process button, enabled
ProcessButton(a) == (~a.isProcessing) /\ a.extractedImageUrl = <<>> /\ canProcess(a)

\* the DownloadButton is rendered
DownloadSection(a) == a.extractedImageUrl # <<>>

AppIdle == app = NoApp /\ appHist = NoAppHist

KeyIdle == keyCall = NoKeyCall

RecoveryIdle ==
  /\ verdict = NoVerdict
  /\ retryCall = NoRetryCall
  /\ resources = NoResources

\* the default build: the variable is not set; no other call is under way
DefaultBuild ==
  env = "undefined" /\ blobCall = NoBlobCall /\ RecoveryIdle /\ AppIdle /\ KeyIdle

(***************************************************************************)
(* Spec: processImage calls made one after the other.                      *)
(***************************************************************************)
ClientIdle ==
  /\ cfg = RemoveBgService([maxRetries |-> 0, initialDelay |-> 0, backoffMultiplier |-> 0])
  /\ rpc = "idle"
  /\ attempt = 0
  /\ lastError = <<>>
  /\ thrown = <<>>
  /\ posts = 0
  /\ sleeps = <<>>
  /\ responses = <<>>
  /\ imageBlob = <<>>

\* the entry a successful call on PoolFile(i) leaves at time 0
WarmEntry(i) ==
  [key |-> _generateCacheKey(PoolFile(i)),
   result |-> MkResult(DataUrlOf(FileBlob(PoolFile(i))),
                       [mime |-> "image/png", data |-> [w |-> 80, h |-> 60], tag |-> "cutA"],
                       80, 60, 0, FALSE),
   timestamp |-> 0]

\* the cache after k successful calls on PoolFile(1) .. PoolFile(k) at time 0
WarmCache(k) == [i \in 1 .. k |-> WarmEntry(i)]

\* the instance as constructed (empty cache, no client), or with a client
\* and the cache that k first calls on distinct files have left
Init ==
  /\ \E k \in {0, MAX_CACHE_SIZE - 1, MAX_CACHE_SIZE} :
       /\ cache = WarmCache(k)
       /\ inserted = CacheKeys(WarmCache(k))
       /\ nextFresh = k + 1
       /\ api = (k > 0)
  /\ now = 0
  /\ calls = [p \in Procs |-> IdleCall]
  /\ ncalls = 0
  /\ purged = FALSE
  /\ prev = <<>>
  /\ ClientIdle
  /\ UtilIdle
  /\ DefaultBuild

\* the files a call is made with: the ordinary file submitted first, the
\* one submitted last, the next ordinary file, or a special file
Submittable ==
  {PoolFile(i) : i \in {j \in {1, nextFresh - 1, nextFresh} : j >= 1}} \cup SpecialFiles

SeqProc == CHOOSE p \in Procs : \A q \in Procs : p <= q

Next ==
  \/ \E input \in {NullInput, NotAFile} \cup Submittable : Start(SeqProc, input)
  \/ \E ok \in BOOLEAN : ReadFileDone(SeqProc, ok)
  \/ DecodeOriginalDone(SeqProc)
  \/ \E ok \in BOOLEAN : CompressDone(SeqProc, ok)
  \/ InvokeClient(SeqProc)
  \/ \E v \in ClientValues : ClientResolves(SeqProc, v)
  \/ \E e \in ClientThrows : ClientRejects(SeqProc, e)
  \/ \E ok \in BOOLEAN : ReadResultDone(SeqProc, ok)
  \/ DecodeResultDone(SeqProc)
  \/ Settle(SeqProc)
  \/ (calls[SeqProc].pc = "idle" /\ ClearCache)
  \/ (calls[SeqProc].pc = "idle" /\ \E b \in BOOLEAN : setBackgroundRemovalApi(b))
  \/ (calls[SeqProc].pc = "idle" /\ Tick(CACHE_EXPIRATION_TIME))
  \/ (calls[SeqProc].pc \in {"idle", "calling"} /\ Tick(1))

Spec == Init /\ [][Next]_vars

(***************************************************************************)
(* SpecCaller: processImage calls made one after the other on a fresh      *)
(* instance with a client, by a caller that may write to the results it    *)
(* receives; the files lie around the compression threshold.               *)
(***************************************************************************)
InitCaller ==
  /\ api = TRUE
  /\ cache = <<>>
  /\ inserted = <<>>
  /\ nextFresh = 1
  /\ now = 0
  /\ calls = [p \in Procs |-> IdleCall]
  /\ ncalls = 0
  /\ purged = FALSE
  /\ prev = <<>>
  /\ ClientIdle
  /\ UtilIdle
  /\ DefaultBuild

NextCaller ==
  \/ \E input \in {PoolFile(1), BigFile} \cup ThresholdFiles : Start(SeqProc, input)
  \/ \E ok \in BOOLEAN : ReadFileDone(SeqProc, ok)
  \/ DecodeOriginalDone(SeqProc)
  \/ \E ok \in BOOLEAN : CompressDone(SeqProc, ok)
  \/ InvokeClient(SeqProc)
  \/ \E v \in ClientValues : ClientResolves(SeqProc, v)
  \/ \E e \in ClientThrows : ClientRejects(SeqProc, e)
  \/ \E ok \in BOOLEAN : ReadResultDone(SeqProc, ok)
  \/ DecodeResultDone(SeqProc)
  \/ MutateResult(SeqProc)
  \/ Settle(SeqProc)

SpecCaller == InitCaller /\ [][NextCaller]_vars

(***************************************************************************)
(* SpecLive: processImage calls made one after the other through the       *)
(* RemoveBgService; every await that is pending ends.                      *)
(***************************************************************************)
LiveAnswers ==
  {Answer("blob", 200), Answer("badData", 200), Answer("noResponse", 0),
   Answer("status", 400), Answer("status", 503)}

LiveValues == {v \in ClientValues : v.tag \in {"cutA", "garbage"}}

InitLive ==
  /\ api = TRUE
  /\ cache = <<>>
  /\ inserted = <<>>
  /\ nextFresh = 1
  /\ now = 0
  /\ calls = [p \in Procs |-> IdleCall]
  /\ ncalls = 0
  /\ purged = FALSE
  /\ prev = <<>>
  /\ \E n \in 0 .. MaxRetriesCfg :
       cfg = RemoveBgService([maxRetries |-> n, initialDelay |-> 10,
                              backoffMultiplier |-> 0])
  /\ rpc = "idle"
  /\ attempt = 0
  /\ lastError = <<>>
  /\ thrown = <<>>
  /\ posts = 0
  /\ sleeps = <<>>
  /\ responses = <<>>
  /\ imageBlob = <<>>
  /\ UtilIdle
  /\ DefaultBuild

\* the steps that end an await or follow one
ProgressLive ==
  \/ \E ok \in BOOLEAN : ReadFileDone(SeqProc, ok)
  \/ DecodeOriginalDone(SeqProc)
  \/ \E ok \in BOOLEAN : CompressDone(SeqProc, ok)
  \/ InvokeClient(SeqProc)
  \/ (calls[SeqProc].pc = "calling" /\ RemoveBackground("blob"))
  \/ \E answer \in LiveAnswers : PostSettles(answer)
  \/ SleepDone
  \/ \E v \in LiveValues : ApiReturns(SeqProc, v)
  \/ ApiThrows(SeqProc)
  \/ \E ok \in BOOLEAN : ReadResultDone(SeqProc, ok)
  \/ DecodeResultDone(SeqProc)

NextLive ==
  \/ \E input \in {NullInput, PoolFile(1), CorruptFile, BigFile} : Start(SeqProc, input)
  \/ ProgressLive
  \/ Settle(SeqProc)

SpecLive == InitLive /\ [][NextLive]_vars /\ WF_vars(ProgressLive)

(***************************************************************************)
(* SpecOverlap: processImage calls in flight together on one instance with *)
(* a client, interleaved at their awaits; the cache starts empty, one      *)
(* short of full, or full, and the files are not resident.                 *)
(***************************************************************************)
OverlapFiles == {PoolFile(MAX_CACHE_SIZE + 1), PoolFile(MAX_CACHE_SIZE + 2), CorruptFile}

OverlapValues == {v \in ClientValues : v.tag \in {"cutA", "cutB", "garbage"}}

InitOverlap ==
  /\ \E k \in {0, MAX_CACHE_SIZE - 1, MAX_CACHE_SIZE} :
       /\ cache = WarmCache(k)
       /\ inserted = CacheKeys(WarmCache(k))
       /\ nextFresh = k + 1
  /\ api = TRUE
  /\ now = 0
  /\ calls = [p \in Procs |-> IdleCall]
  /\ ncalls = 0
  /\ purged = FALSE
  /\ prev = <<>>
  /\ ClientIdle
  /\ UtilIdle
  /\ DefaultBuild

NextOverlap ==
  \E p \in Procs :
    \/ \E input \in OverlapFiles : Start(p, input)
    \/ ReadFileDone(p, TRUE)
    \/ DecodeOriginalDone(p)
    \/ InvokeClient(p)
    \/ \E v \in OverlapValues : ClientResolves(p, v)
    \/ ClientRejects(p, CreateError(NETWORK_ERROR, NETWORK_TIMEOUT, TRUE))
    \/ ReadResultDone(p, TRUE)
    \/ DecodeResultDone(p)
    \/ Settle(p)

SpecOverlap == InitOverlap /\ [][NextOverlap]_vars

(***************************************************************************)
(* SpecOptions: removeBackground called on the service itself, with and    *)
(* without options, with and without an API service.                       *)
(***************************************************************************)
NoOptions == <<>>

CallerOptions ==
  {NoOptions,
   [size |-> "preview"],
   [crop |-> FALSE],
   [format |-> "jpg", crop_margin |-> "0px"],
   [size |-> "full", type |-> "product", format |-> "zip"],
   [channels |-> "alpha"]}

InitOptions ==
  /\ api \in BOOLEAN
  /\ cache = <<>>
  /\ inserted = <<>>
  /\ nextFresh = 1
  /\ now = 0
  /\ calls = [p \in Procs |-> IdleCall]
  /\ ncalls = 0
  /\ purged = FALSE
  /\ prev = <<>>
  /\ ClientIdle
  /\ UtilIdle
  /\ DefaultBuild

NextOptions ==
  \/ \E f \in {PoolFile(1), BigFile}, options \in CallerOptions :
       ServiceRemoveBackground(SeqProc, FileBlob(f), options)
  \/ \E ok \in BOOLEAN, v \in ClientValues, e \in ClientThrows :
       ApiSettles(SeqProc, ok, v, e)
  \/ TakeBlob(SeqProc)

SpecOptions == InitOptions /\ [][NextOptions]_vars

(***************************************************************************)
(* SpecBuild: the calls of SpecCaller in every build: the environment      *)
(* variable not set, 'true' or 'false'.                                    *)
(***************************************************************************)
InitBuild ==
  /\ api = TRUE
  /\ cache = <<>>
  /\ inserted = <<>>
  /\ nextFresh = 1
  /\ now = 0
  /\ calls = [p \in Procs |-> IdleCall]
  /\ ncalls = 0
  /\ purged = FALSE
  /\ prev = <<>>
  /\ ClientIdle
  /\ UtilIdle
  /\ env \in EnvValues
  /\ blobCall = NoBlobCall
  /\ RecoveryIdle
  /\ AppIdle
  /\ KeyIdle

SpecBuild == InitBuild /\ [][NextCaller]_vars

(***************************************************************************)
(* SpecBlob: one imageToBlob call of the CanvasUtility, for canvases and   *)
(* other values, formats and qualities.                                    *)
(***************************************************************************)
ACCEPTED_MIME_TYPES == {"image/jpeg", "image/png", "image/webp"}

Formats ==
  {Format(TRUE, "image/", "png"), Format(TRUE, "image/", "jpeg"),
   Format(TRUE, "image/", "webp"), Format(TRUE, "image/", "gif"),
   Format(TRUE, "image/", ""), Format(TRUE, "text/p", "lain"),
   Format(TRUE, "image", ""), Format(TRUE, "", ""), Format(FALSE, "", "")}

Qualities ==
  {Quality(TRUE, FALSE, h) : h \in {0 - 10, 0, 95, 100, 110}}
    \cup {Quality(TRUE, TRUE, 0), Quality(FALSE, FALSE, 50)}

InitBlob ==
  /\ api = FALSE
  /\ cache = <<>>
  /\ now = 0
  /\ calls = [p \in Procs |-> IdleCall]
  /\ ncalls = 0
  /\ nextFresh = 1
  /\ inserted = <<>>
  /\ purged = FALSE
  /\ prev = <<>>
  /\ ClientIdle
  /\ UtilIdle
  /\ env = "undefined"
  /\ RecoveryIdle
  /\ AppIdle
  /\ KeyIdle
  /\ \E canvas \in BOOLEAN, format \in Formats, quality \in Qualities :
       blobCall = [NoBlobCall EXCEPT !.pc = "called", !.canvas = canvas,
                                     !.format = format, !.quality = quality]

NextBlob ==
  \/ ImageToBlob
  \/ \E blob \in BOOLEAN : ToBlobDone(blob)

SpecBlob == InitBlob /\ [][NextBlob]_vars

(***************************************************************************)
(* The specifications of ErrorRecovery start from services at rest.        *)
(***************************************************************************)
ServicesAtRest ==
  /\ api = FALSE
  /\ cache = <<>>
  /\ now = 0
  /\ calls = [p \in Procs |-> IdleCall]
  /\ ncalls = 0
  /\ nextFresh = 1
  /\ inserted = <<>>
  /\ purged = FALSE
  /\ prev = <<>>
  /\ ClientIdle
  /\ UtilIdle
  /\ env = "undefined"
  /\ blobCall = NoBlobCall
  /\ AppIdle
  /\ KeyIdle

(***************************************************************************)
(* SpecClassify: one isRetryable call, for every type and code with and    *)
(* without an explicit retryable flag, and for null.                       *)
(***************************************************************************)
ErrorTypeArgs ==
  {UPLOAD_ERROR, PROCESSING_ERROR, API_ERROR, NETWORK_ERROR, "UNKNOWN_ERROR", ""}

ErrorCodeArgs ==
  {API_KEY_INVALID, API_QUOTA_EXCEEDED, API_SERVICE_UNAVAILABLE, API_BAD_REQUEST,
   NETWORK_TIMEOUT, CANVAS_ERROR, ""}

ErrorArgs ==
  {Nullish}
    \cup {PartialError(t, c) : t \in ErrorTypeArgs, c \in ErrorCodeArgs}
    \cup {CreateError(t, c, f) : t \in ErrorTypeArgs, c \in ErrorCodeArgs, f \in BOOLEAN}

InitClassify ==
  /\ ServicesAtRest
  /\ retryCall = NoRetryCall
  /\ resources = NoResources
  /\ \E error \in ErrorArgs : verdict = [NoVerdict EXCEPT !.pc = "called", !.error = error]

NextClassify == IsRetryable

SpecClassify == InitClassify /\ [][NextClassify]_vars

(***************************************************************************)
(* SpecRetry: one call of retry or withRetry, on an operation that fails   *)
(* or succeeds at each call.                                               *)
(***************************************************************************)
OperationErrors ==
  {PartialError(NETWORK_ERROR, ""), PartialError(UPLOAD_ERROR, ""),
   CreateError(API_ERROR, API_KEY_INVALID, FALSE), RawError}

InitRetry ==
  /\ ServicesAtRest
  /\ verdict = NoVerdict
  /\ resources = NoResources
  /\ \E via \in {"retry", "withRetry"}, isFunction \in BOOLEAN,
        maxAttempts \in (0 - 1) .. MaxAttempts, initialDelay \in {0, 1000} :
       retryCall = [NoRetryCall EXCEPT !.pc = "called", !.via = via,
                                       !.isFunction = isFunction,
                                       !.maxAttempts = maxAttempts,
                                       !.initialDelay = initialDelay,
                                       !.backoffMultiplier = 2]

NextRetry ==
  \/ retry
  \/ \E ok \in BOOLEAN, error \in OperationErrors :
       OperationSettles(ok, IF ok THEN Nullish ELSE error)
  \/ RetrySleepDone

SpecRetry == InitRetry /\ [][NextRetry]_vars

(***************************************************************************)
(* SpecRegistry: registerResource and cleanup calls on one ErrorRecovery.  *)
(***************************************************************************)
Resources ==
  {Resource(1, "cleanupOk"), Resource(2, "cleanupThrows"), Resource(3, "blobUrl"),
   Resource(4, "otherString"), Resource(5, "plainObject"), Resource(6, "null")}

InitRegistry ==
  /\ ServicesAtRest
  /\ verdict = NoVerdict
  /\ retryCall = NoRetryCall
  /\ resources = NoResources

NextRegistry ==
  \/ \E r \in Resources : RegisterResource(r)
  \/ Cleanup

SpecRegistry == InitRegistry /\ [][NextRegistry]_vars

(***************************************************************************)
(* SpecApp: the App component from its creation: uploads, processing,      *)
(* downloads, retries and resets, with a service that resolves or rejects. *)
(***************************************************************************)
Rejections ==
  {Rejection(CreateError(API_ERROR, API_KEY_INVALID, FALSE), TRUE, FALSE, 0),
   Rejection(CreateError(API_ERROR, API_KEY_INVALID, FALSE), FALSE, FALSE, 0),
   Rejection(CreateError(NETWORK_ERROR, NETWORK_TIMEOUT, TRUE), FALSE, FALSE, 0),
   Rejection(PartialError(API_ERROR, API_QUOTA_EXCEEDED), FALSE, FALSE, 429),
   Rejection(RawError, TRUE, TRUE, 0),
   Rejection(RawError, TRUE, FALSE, 401),
   Rejection(RawError, TRUE, FALSE, 0)}

InitApp ==
  /\ ServicesAtRest
  /\ RecoveryIdle

NextApp ==
  \/ \E file \in {PoolFile(1), PoolFile(2)} : UploadImage(file)
  \/ AppProcessImage
  \/ \E v \in {w \in ClientValues : w.isBlob /\ w.content # NoPixels} : ServiceResolves(v)
  \/ \E rej \in Rejections : ServiceRejects(rej)
  \/ \E ok \in BOOLEAN : DownloadExtracted(ok)
  \/ AppRetry
  \/ AppReset

SpecApp == InitApp /\ [][NextApp]_vars

(***************************************************************************)
(* SpecEvents: the App driven through its template: the events of the      *)
(* ImageUploader at any time, the buttons of the ImageProcessor and of the *)
(* DownloadButton while they are shown, and the service calls the          *)
(* component awaits settling in between.                                   *)
(***************************************************************************)
\* validation.error of the ImageUploader: a code and a message
INVALID_TYPE == "INVALID_TYPE"

EventFiles == {PoolFile(1), BigFile}

NextEvents ==
  \/ \E file \in EventFiles : UploadImage(file)
  \/ HandleErrorEvent(PartialError("", INVALID_TYPE), FALSE)
  \/ (DownloadSection(app) /\ HandleErrorEvent(RawError, TRUE))
  \/ (ProcessButton(app) /\ AppProcessImage)
  \/ (canRetry(app) /\ AppRetry)
  \/ AppReset
  \/ \E v \in {w \in ClientValues : w.isBlob /\ w.content # NoPixels} : ServiceResolves(v)
  \/ \E rej \in Rejections : ServiceRejects(rej)

SpecEvents == InitApp /\ [][NextEvents]_vars

(***************************************************************************)
(* SpecKeys: _generateCacheKey applied to two files whose names and types  *)
(* may hold the separator.                                                 *)
(***************************************************************************)
KeyFiles ==
  {MkInput("file", name, size, lastModified, type, [w |-> 100, h |-> 100]) :
     name \in {"shirt", "shirt-7", "a"}, size \in {1, 7}, lastModified \in {1, 2},
     type \in {"image/png", "2-image/png", "image/x-icon"}}

InitKeys ==
  /\ api = FALSE
  /\ cache = <<>>
  /\ now = 0
  /\ calls = [p \in Procs |-> IdleCall]
  /\ ncalls = 0
  /\ nextFresh = 1
  /\ inserted = <<>>
  /\ purged = FALSE
  /\ prev = <<>>
  /\ ClientIdle
  /\ UtilIdle
  /\ env = "undefined"
  /\ blobCall = NoBlobCall
  /\ RecoveryIdle
  /\ app = NoApp
  /\ appHist = NoAppHist
  /\ \E f \in KeyFiles, g \in KeyFiles :
       keyCall = [NoKeyCall EXCEPT !.pc = "called", !.files = <<f, g>>]

NextKeys == GenerateCacheKeys

SpecKeys == InitKeys /\ [][NextKeys]_vars

(***************************************************************************)
(* SpecResize: one resizeImage call of the CanvasUtility, for every image  *)
(* size and every pair of bounds up to MaxDim.                             *)
(***************************************************************************)
InitResize ==
  /\ DefaultBuild
  /\ api = FALSE
  /\ cache = <<>>
  /\ inserted = <<>>
  /\ nextFresh = 1
  /\ now = 0
  /\ calls = [p \in Procs |-> IdleCall]
  /\ ncalls = 0
  /\ purged = FALSE
  /\ prev = <<>>
  /\ ClientIdle
  /\ \E w \in 1 .. MaxDim, h \in 1 .. MaxDim, mw \in 0 .. MaxDim, mh \in 0 .. MaxDim :
       canvasCall = [pc |-> "called", image |-> [w |-> w, h |-> h],
                     maxWidth |-> mw, maxHeight |-> mh, canvas |-> NoPixels]
  /\ cropCall = NoCropCall

NextResize == ResizeImage

SpecResize == InitResize /\ [][NextResize]_vars

(***************************************************************************)
(* SpecExtract: one call of the PatternExtractor (_detectPatternBounds,    *)
(* extractPattern or smartCrop) on a pixel buffer.                         *)
(***************************************************************************)
Clear == Pixel(0, 0, 0, 0)
\* alpha exactly at the default opacity threshold
Faint == Pixel(255, 255, 255, 10)
\* translucent: above the opacity threshold, below the sampling threshold
Veil == Pixel(255, 255, 255, 100)
Grey == Pixel(32, 32, 32, 255)
Dark == Pixel(31, 31, 31, 255)
White == Pixel(255, 255, 255, 255)
Black == Pixel(0, 0, 0, 255)

Palette == {Clear, Faint, Veil, Grey, White}

Buffer(pixels, width, height) == [pixels |-> pixels, width |-> width, height |-> height]

\* every buffer of at most MaxPixels pixels over the palette
FreeBuffers ==
  UNION {{Buffer(px, shape[1], shape[2]) : px \in [1 .. shape[1] * shape[2] -> Palette]} :
           shape \in {sh \in (1 .. MaxPixels) \X (1 .. MaxPixels) :
                        sh[1] * sh[2] <= MaxPixels}}

\* the opaque buffers of ten pixels, nine of one colour and one of a
\* contrasting colour, as a row, as a column and as two rows
TenthBuffers ==
  {Buffer([i \in 1 .. 10 |-> IF i = k THEN colours[2] ELSE colours[1]],
          shape[1], shape[2]) :
     shape \in {<<10, 1>>, <<1, 10>>, <<5, 2>>},
     k \in 1 .. 10,
     colours \in {c \in {Grey, Dark, White} \X {White, Black} : c[1] # c[2]}}

\* rows of 21 pixels: the three pixels _detectDominantColor samples
\* (x = 0, 10, 20) have colours of their own, the others are all
\* transparent or all black
SampledBuffers ==
  {Buffer([i \in 1 .. 21 |-> IF i = 1 THEN samples[1]
                             ELSE IF i = 11 THEN samples[2]
                             ELSE IF i = 21 THEN samples[3]
                             ELSE filler], 21, 1) :
     samples \in {Grey, Dark, White, Veil} \X {Grey, Dark, White, Veil}
                   \X {Grey, Dark, White, Veil},
     filler \in {Clear, Black}}

Buffers == FreeBuffers \cup TenthBuffers \cup SampledBuffers

CropCall(op, buffer, threshold, padding, densityThreshold) ==
  [NoCropCall EXCEPT !.pc = "called", !.op = op, !.pixels = buffer.pixels,
                     !.width = buffer.width, !.height = buffer.height,
                     !.threshold = threshold, !.padding = padding,
                     !.densityThreshold = densityThreshold]

\* the default densityThreshold 0.05
DefaultDensity == [n |-> 5, d |-> 100]

InitExtract ==
  /\ DefaultBuild
  /\ api = FALSE
  /\ cache = <<>>
  /\ inserted = <<>>
  /\ nextFresh = 1
  /\ now = 0
  /\ calls = [p \in Procs |-> IdleCall]
  /\ ncalls = 0
  /\ purged = FALSE
  /\ prev = <<>>
  /\ ClientIdle
  /\ canvasCall = NoCanvasCall
  /\ \E buffer \in Buffers :
       \/ \E threshold \in {10, 128} :
            cropCall = CropCall("detect", buffer, threshold, 0, DefaultDensity)
       \/ \E threshold \in {10, 128}, padding \in {0, 1, 20} :
            cropCall = CropCall("extractPattern", buffer, threshold, padding, DefaultDensity)
       \/ \E padding \in {0, 1, 20}, t \in {DefaultDensity, [n |-> 1, d |-> 2]} :
            cropCall = CropCall("smartCrop", buffer, 10, padding, t)

NextExtract ==
  \/ DetectPatternBounds
  \/ ExtractPattern
  \/ SmartCrop

SpecExtract == InitExtract /\ [][NextExtract]_vars

(***************************************************************************)
(* SpecClient: one removeBackground call of a RemoveBgService.             *)
(***************************************************************************)
\* the settings a service is constructed with (0: not given)
Configs ==
  [maxRetries : 0 .. MaxRetriesCfg, initialDelay : {0, 10}, backoffMultiplier : {0, 3}]

InitClient ==
  /\ api = FALSE
  /\ cache = <<>>
  /\ now = 0
  /\ calls = [p \in Procs |-> IdleCall]
  /\ ncalls = 0
  /\ nextFresh = 1
  /\ inserted = <<>>
  /\ purged = FALSE
  /\ prev = <<>>
  /\ \E config \in Configs : cfg = RemoveBgService(config)
  /\ rpc = "idle"
  /\ attempt = 0
  /\ lastError = <<>>
  /\ thrown = <<>>
  /\ posts = 0
  /\ sleeps = <<>>
  /\ responses = <<>>
  /\ imageBlob = <<>>
  /\ UtilIdle
  /\ DefaultBuild

NextClient ==
  \/ \E image \in ImageArgs : RemoveBackground(image)
  \/ \E answer \in Answers : PostSettles(answer)
  \/ SleepDone

SpecClient == InitClient /\ [][NextClient]_vars

(***************************************************************************)
(* Claims about processImage, checked under Spec.                          *)
(***************************************************************************)
Call == calls[SeqProc]

IsPrefix(s, t) == Len(s) <= Len(t) /\ SubSeq(t, 1, Len(s)) = s

Occurrences(s, x) == Cardinality({i \in 1 .. Len(s) : s[i] = x})

\* the last n elements of s, all of s when it is shorter
LastN(s, n) == IF Len(s) <= n THEN s ELSE SubSeq(s, Len(s) - n + 1, Len(s))

\* C1: a call whose lookup meets no usable entry returns fromCache=false
\* after exactly one call of the client; a call that directly follows a
\* successful call with the same identity, with no clearCache and no expiry
\* in between, returns fromCache=true with the original and extracted data
\* of that call and never calls the client.
CacheDeterminism ==
  /\ (Call.pc = "done" /\ Call.lookup \in {"absent", "expired"})
       => (~Call.result[1].fromCache /\ Call.invoked = 1)
  /\ (Call.lookup \notin {"none", "expired"} /\ prev # <<>> /\ prev[1].key = Call.cacheKey)
       => /\ Call.pc = "done"
          /\ Call.result[1].fromCache
          /\ Call.invoked = 0
          /\ Call.result[1].originalDataUrl = prev[1].result.originalDataUrl
          /\ Call.result[1].extractedDataUrl = prev[1].result.extractedDataUrl

\* C1 witness: a miss that called the client once, then a hit for the same
\* identity
CacheDeterminismWitness ==
  /\ Call.pc = "done"
  /\ prev # <<>>
  /\ prev[1].key = Call.cacheKey
  /\ ~prev[1].result.fromCache
  /\ prev[1].invoked = 1
  /\ Call.result[1].fromCache
  /\ Call.invoked = 0

ErrorsAreClassified ==
  \A p \in Procs :
    calls[p].pc = "failed" =>
      /\ ~calls[p].error[1].nullish
      /\ calls[p].error[1].type # ""
      /\ calls[p].error[1].code # ""
      /\ calls[p].error[1].hasRetryable

\* C8: a call with null, with a value that is no File, or on an instance
\* without API service fails with retryable=false having done nothing but
\* the validation: no lookup, no read, no decode, no call of the client;
\* and the step that starts such a call leaves the cache as it is.
ValidationRejects ==
  \A p \in Procs :
    (calls[p].pc # "idle" /\ (~IsFile(calls[p].input) \/ ~calls[p].hadApi))
      => /\ calls[p].pc = "failed"
         /\ ~calls[p].error[1].nullish
         /\ calls[p].error[1].hasRetryable
         /\ ~calls[p].error[1].retryable
         /\ calls[p].trace = <<"validate">>
         /\ calls[p].lookup = "none"
         /\ calls[p].invoked = 0

ValidationKeepsCache ==
  \A p \in Procs :
    (calls[p].pc = "idle" /\ calls'[p].pc # "idle"
       /\ (~IsFile(calls'[p].input) \/ ~api))
      => cache' = cache

ValidationFirst == []ValidationRejects /\ [][ValidationKeepsCache]_vars

\* C8 witness: a File whose entry is resident, rejected because no API
\* service is configured
ValidationFirstWitness ==
  /\ Call.pc = "failed"
  /\ IsFile(Call.input)
  /\ ~Call.hadApi
  /\ IndexOf(cache, _generateCacheKey(Call.input)) # 0

\* C9: a result is returned from the cache only when the lookup met an
\* entry no older than CACHE_EXPIRATION_TIME; a lookup that meets an older
\* entry removes it (the key stays absent until the call stores its own
\* result), and the call goes the way of a miss: once it has reached the
\* service call it has called the client once, and it returns
\* fromCache=false.
ExpiredIsMiss ==
  \A p \in Procs :
    /\ (calls[p].pc = "done" /\ calls[p].result[1].fromCache) => calls[p].lookup = "fresh"
    /\ calls[p].lookup = "expired" =>
         /\ calls[p].pc # "done" => IndexOf(cache, calls[p].cacheKey) = 0
         /\ calls[p].pc \in {"calling", "readResult", "decodeResult", "done"}
              => calls[p].invoked = 1
         /\ calls[p].pc = "done" => ~calls[p].result[1].fromCache

\* C9 witness: the lookup met an expired entry and the call returned a
\* fresh result
ExpiredIsMissWitness ==
  /\ Call.pc = "done"
  /\ Call.lookup = "expired"
  /\ Call.invoked = 1
  /\ ~Call.result[1].fromCache
  /\ IndexOf(cache, Call.cacheKey) # 0

\* the steps of a call that misses the cache, in the order of the code
StepsOfMiss(compressed) ==
  <<"validate", "lookup", "readFile", "decodeOriginal">>
    \o (IF compressed THEN <<"compress">> ELSE <<>>)
    \o <<"invokeClient", "clientReturned", "readResult", "decodeResult",
         "cacheWrite", "return">>

\* C10: the steps a call has completed are an initial part of: validation,
\* lookup, file read, decode of the original, compression (if the image
\* needs it), one call of the client, read and decode of the result, cache
\* write, return; a call that returns a fresh result has completed all of
\* them; and the key of a call that missed is not resident before the step
\* that decodes the result.
StepOrder ==
  \A p \in Procs :
    /\ \/ calls[p].trace = <<"validate", "lookup", "return">>
       \/ IsPrefix(calls[p].trace, StepsOfMiss(TRUE))
       \/ IsPrefix(calls[p].trace, StepsOfMiss(FALSE))
    /\ calls[p].invoked = Occurrences(calls[p].trace, "invokeClient")
    /\ calls[p].pc \in {"calling", "readResult", "decodeResult"}
         => (Occurrences(calls[p].trace, "compress") = 1
               <=> NeedsCompression(calls[p].image))
    /\ (calls[p].pc = "done" /\ ~calls[p].result[1].fromCache)
         => calls[p].trace \in {StepsOfMiss(TRUE), StepsOfMiss(FALSE)}
    /\ (calls[p].lookup \in {"absent", "expired"} /\ calls[p].pc # "done")
         => IndexOf(cache, calls[p].cacheKey) = 0

\* C10 witness: a call that compressed the image has completed every step
StepOrderWitness ==
  /\ Call.pc = "done"
  /\ Call.trace = StepsOfMiss(TRUE)
  /\ Call.invoked = 1

(***************************************************************************)
(* Claims about RemoveBgService, checked under SpecClient.                 *)
(***************************************************************************)
LastAnswer == responses[Len(responses)]

\* the post failed with an HTTP 5xx response or with no response at all
RetryableAnswer(answer) ==
  \/ answer.kind = "noResponse"
  \/ answer.kind = "status" /\ answer.status >= 500

AllRetryable == \A i \in 1 .. Len(responses) : RetryableAnswer(responses[i])

\* C3: removeBackground never posts more than maxRetries times (3 when the
\* configuration gives none); when every post so far failed with a 5xx
\* response or without a response, the call throws exactly when the
\* maxRetries-th post has failed, and it throws the error of that post,
\* which has retryable=true.
RetryBound ==
  /\ posts <= cfg.maxRetries
  /\ cfg.config.maxRetries = 0 => cfg.maxRetries = 3
  /\ (responses # <<>> /\ AllRetryable) =>
       /\ rpc # "returned"
       /\ rpc = "thrown" <=> Len(responses) = cfg.maxRetries
       /\ rpc = "thrown" =>
            /\ posts = cfg.maxRetries
            /\ thrown = lastError
            /\ thrown[1].hasRetryable /\ thrown[1].retryable
            /\ thrown[1].type = (IF LastAnswer.kind = "noResponse"
                                 THEN NETWORK_ERROR ELSE API_ERROR)

\* C3 witness: the default of three posts, all failed retryably, the last
\* one without a response
RetryBoundWitness ==
  /\ cfg.config.maxRetries = 0
  /\ rpc = "thrown"
  /\ posts = 3
  /\ Len(responses) = 3
  /\ responses[1].status = 501
  /\ responses[2].status = 503
  /\ responses[3].kind = "noResponse"
  /\ thrown[1].type = NETWORK_ERROR

\* C4: when a post has failed with an error that is not retryable (as the
\* errors of the statuses 400, 401, 402, 403 and 429 are), the call has
\* thrown that error, and no post and no sleep has followed the failed
\* post: there are as many posts as answers and one sleep less.
NonRetryableStops ==
  (responses # <<>> /\ LastAnswer.kind # "blob"
     /\ \/ ~IsRetryableFlag(lastError[1])
        \/ LastAnswer.kind = "status" /\ LastAnswer.status \in {400, 401, 402, 403, 429})
    => /\ rpc = "thrown"
       /\ thrown = lastError
       /\ thrown[1].hasRetryable /\ ~thrown[1].retryable
       /\ posts = Len(responses)
       /\ Len(sleeps) = Len(responses) - 1

\* C4 witness: a 429 answer to the second post of a service that could
\* have posted a third time
NonRetryableStopsWitness ==
  /\ cfg.maxRetries = 3
  /\ rpc = "thrown"
  /\ responses = <<Answer("status", 503), Answer("status", 429)>>
  /\ posts = 2
  /\ Len(sleeps) = 1

\* responses 503, 503, 200 with initialDelay 10 and multiplier 2
BackoffScenario ==
  /\ cfg.initialDelay = 10
  /\ cfg.backoffMultiplier = 2
  /\ responses = <<Answer("status", 503), Answer("status", 503), Answer("blob", 200)>>

\* C5: the k-th sleep follows the failed k-th post, k < maxRetries, and
\* lasts initialDelay * backoffMultiplier^(k-1); no sleep precedes the first
\* post and none follows the last one (a finished call has slept once less
\* than it has posted); with the answers 503, 503, 200, initialDelay 10 and
\* multiplier 2 the call returns from the third post after sleeps of 10 and
\* 20.
BackoffDelays ==
  /\ \A k \in 1 .. Len(sleeps) :
       /\ k < cfg.maxRetries
       /\ k <= Len(responses)
       /\ sleeps[k] = cfg.initialDelay * (cfg.backoffMultiplier ^ (k - 1))
  /\ Len(sleeps) = (IF rpc = "sleeping" THEN posts
                    ELSE IF posts = 0 THEN 0 ELSE posts - 1)
  /\ (rpc \in {"returned", "thrown"} /\ responses # <<>>)
       => Len(sleeps) = Len(responses) - 1
  /\ (Len(responses) = 2 /\ cfg.maxRetries >= 3
        /\ \A i \in 1 .. 2 : responses[i] = Answer("status", 503))
       => rpc \in {"sleeping", "posting"}
  /\ BackoffScenario => (rpc = "returned" /\ posts = 3 /\ sleeps = <<10, 20>>)

\* C5 witness: the scenario of the three answers
BackoffDelaysWitness ==
  /\ BackoffScenario
  /\ rpc = "returned"
  /\ sleeps = <<10, 20>>

ReturnedByValue ==
  \A p \in Procs :
    (calls[p].pc = "done" /\ calls[p].result[1].fromCache /\ ~calls[p].written)
      => calls[p].result[1].extractedDataUrl # Scribble

(***************************************************************************)
(* Claims about resizeImage, checked under SpecResize.                     *)
(***************************************************************************)
Abs(x) == IF x < 0 THEN -x ELSE x

\* x is an integer nearest to the rational n / d
NearestTo(x, n, d) == 2 * Abs(x * d - n) <= d

\* C13: a canvas that resizeImage returns is no wider than maxWidth and no
\* higher than maxHeight.
ResizeWithinBounds ==
  canvasCall.pc = "returned" =>
    /\ canvasCall.canvas.w <= canvasCall.maxWidth
    /\ canvasCall.canvas.h <= canvasCall.maxHeight

\* C13 witness: an image too wide and, after the width pass, still too high
ResizeWithinBoundsWitness ==
  /\ canvasCall.pc = "returned"
  /\ canvasCall.image = [w |-> 6, h |-> 5]
  /\ canvasCall.maxWidth = 5
  /\ canvasCall.maxHeight = 3
  /\ canvasCall.canvas = [w |-> 4, h |-> 3]

NoUpscale ==
  canvasCall.pc = "returned" =>
    /\ (canvasCall.image.w <= canvasCall.maxWidth
          /\ canvasCall.image.h <= canvasCall.maxHeight)
         => canvasCall.canvas = canvasCall.image
    /\ canvasCall.canvas.w <= canvasCall.image.w
    /\ canvasCall.canvas.h <= canvasCall.image.h

\* C15 witness: a 1 x 1 image with larger bounds stays 1 x 1
NoUpscaleWitness ==
  /\ canvasCall.pc = "returned"
  /\ canvasCall.image = [w |-> 1, h |-> 1]
  /\ canvasCall.maxWidth = MaxDim
  /\ canvasCall.maxHeight = MaxDim
  /\ canvasCall.canvas = [w |-> 1, h |-> 1]

(***************************************************************************)
(* Claims about the PatternExtractor, checked under SpecExtract.           *)
(***************************************************************************)
\* 0 <= left < right <= width and 0 <= top < bottom <= height
InsideImage(b, width, height) ==
  /\ 0 <= b.left /\ b.left < b.right /\ b.right <= width
  /\ 0 <= b.top /\ b.top < b.bottom /\ b.bottom <= height

\* C16: every box _detectPatternBounds or _findContentBounds returns has
\* 0 <= left < right <= width and 0 <= top < bottom <= height, and so has
\* the padded box extractPattern or smartCrop crops with.
BoundsContained ==
  cropCall.pc = "returned" =>
    /\ cropCall.bounds # <<>> =>
         InsideImage(cropCall.bounds[1], cropCall.width, cropCall.height)
    /\ cropCall.density # <<>> =>
         InsideImage(cropCall.density[1], cropCall.width, cropCall.height)
    /\ cropCall.crop # <<>> =>
         InsideImage(cropCall.crop[1], cropCall.width, cropCall.height)

\* C16 witness: a box found by colour distance that does not touch the
\* right edge, padded beyond the image and clamped to it
BoundsContainedWitness ==
  /\ cropCall.pc = "returned"
  /\ cropCall.op = "extractPattern"
  /\ cropCall.strategy = "colour"
  /\ cropCall.padding = 20
  /\ cropCall.bounds[1].right < cropCall.width
  /\ cropCall.crop = <<Box(0, 0, cropCall.width, cropCall.height)>>

\* the call is made on an opaque buffer of ten pixels of which nine have
\* one colour and the k-th another
TenthWithMinorAt(k) ==
  /\ Len(cropCall.pixels) = 10
  /\ \A i \in 1 .. 10 : cropCall.pixels[i].a = 255
  /\ \A i, j \in (1 .. 10) \ {k} : cropCall.pixels[i] = cropCall.pixels[j]
  /\ \A i \in (1 .. 10) \ {k} : cropCall.pixels[i] # cropCall.pixels[k]

\* C17 (as claimed): on an opaque buffer with nine pixels of one colour and
\* one pixel of a contrasting colour _detectPatternBounds returns the box
\* of that one pixel.
TightContrastBox ==
  \A k \in 1 .. 10 :
    (cropCall.pc = "returned" /\ cropCall.op = "detect" /\ TenthWithMinorAt(k))
      => cropCall.bounds =
           <<Box((k - 1) % cropCall.width, (k - 1) \div cropCall.width,
                 ((k - 1) % cropCall.width) + 1,
                 ((k - 1) \div cropCall.width) + 1)>>

\* some row, some column has a density above the threshold of the call
SomeRowExceeds ==
  \E y \in 0 .. cropCall.height - 1 :
    Cardinality({x \in 0 .. cropCall.width - 1 :
                   PixelAt(cropCall.pixels, cropCall.width, x, y).a > 10})
        * cropCall.densityThreshold.d
      > cropCall.densityThreshold.n * cropCall.width

SomeColumnExceeds ==
  \E x \in 0 .. cropCall.width - 1 :
    Cardinality({y \in 0 .. cropCall.height - 1 :
                   PixelAt(cropCall.pixels, cropCall.width, x, y).a > 10})
        * cropCall.densityThreshold.d
      > cropCall.densityThreshold.n * cropCall.height

\* C18 (as claimed): when no row or no column has a density above the
\* threshold, smartCrop gets no box from _findContentBounds and hands over
\* to extractPattern.
DensityNullFallsBack ==
  (cropCall.pc = "returned" /\ cropCall.op = "smartCrop"
     /\ (~SomeRowExceeds \/ ~SomeColumnExceeds))
    => (cropCall.density = <<>> /\ cropCall.strategy # "density")

\* the pixels of the call with alpha above its opacity threshold
OpaquePixels ==
  {c \in Coordinates(cropCall.width, cropCall.height) :
     PixelAt(cropCall.pixels, cropCall.width, c[1], c[2]).a > cropCall.threshold}

\* C19: _detectPatternBounds returns a box exactly when some pixel has
\* alpha above the threshold; when no pixel is farther than 30 from the
\* dominant colour, the box is that of the pixels with alpha above the
\* threshold.
BoxIffOpaque ==
  (cropCall.pc = "returned" /\ cropCall.op \in {"detect", "extractPattern"}) =>
    /\ cropCall.bounds # <<>> <=> OpaquePixels # {}
    /\ cropCall.strategy = "none" <=> OpaquePixels = {}
    /\ cropCall.strategy = "basic" => cropCall.bounds = <<BoxAround(OpaquePixels)>>

\* C19 witness: one colour throughout next to a transparent pixel: no pixel
\* is far from the dominant colour and the basic strategy gives the box
BoxIffOpaqueWitness ==
  /\ cropCall.pc = "returned"
  /\ cropCall.op = "detect"
  /\ cropCall.pixels = <<Grey, Clear, Grey, Grey>>
  /\ cropCall.width = 2
  /\ cropCall.strategy = "basic"
  /\ cropCall.bounds = <<Box(0, 0, 2, 2)>>

(***************************************************************************)
(* Claim about the validation of removeBackground, checked under           *)
(* SpecClient.                                                             *)
(***************************************************************************)
\* C20 (as claimed): removeBackground called with null, with a value
\* that is not a Blob or with a Blob of length zero throws a
\* ProcessingError that is not retryable, and posts nothing.
EmptyImageRejected ==
  (imageBlob # <<>> /\ imageBlob[1] \in {"null", "string", "emptyBlob"}) =>
    /\ rpc = "thrown"
    /\ thrown # <<>>
    /\ thrown[1] # Nullish
    /\ thrown[1].type = PROCESSING_ERROR
    /\ ~IsRetryableFlag(thrown[1])
    /\ posts = 0

(***************************************************************************)
(* Claim about the cropping path, checked under SpecBuild.                 *)
(***************************************************************************)
\* C21 (as claimed): with ENABLE_PATTERN_EXTRACTION false a call that
\* returns a fresh result has called the PatternExtractor; with it true
\* the PatternExtractor is not called and the request carries crop = true
\* and the margin of PATTERN_PADDING pixels.
CropPathFollowsFlag ==
  \A p \in Procs :
    /\ (ENABLE_PATTERN_EXTRACTION /\ calls[p].options # <<>>)
         => (calls[p].options[1].crop /\ calls[p].options[1].crop_margin = "20px")
    /\ ENABLE_PATTERN_EXTRACTION => cropCall = NoCropCall
    /\ (~ENABLE_PATTERN_EXTRACTION /\ calls[p].pc = "done"
          /\ ~calls[p].result[1].fromCache)
         => cropCall # NoCropCall

(***************************************************************************)
(* Claim about imageToBlob, checked under SpecBlob.                        *)
(***************************************************************************)
\* C22 (as claimed): a call of imageToBlob on a canvas with a format
\* outside image/png, image/jpeg, image/webp or a quality outside [0, 1]
\* is rejected without an encoding; with one of the three formats the
\* qualities 0 and 1 are accepted.
EncodeRejectsUnsupported ==
  (blobCall.pc \notin {"idle", "called"} /\ blobCall.canvas) =>
    /\ (\/ ~blobCall.format.string
        \/ FormatText(blobCall.format) \notin ACCEPTED_MIME_TYPES
        \/ ~blobCall.quality.number
        \/ blobCall.quality.nan
        \/ blobCall.quality.hundredths < 0
        \/ blobCall.quality.hundredths > 100)
         => (blobCall.pc = "rejected" /\ ~blobCall.encoded)
    /\ (/\ blobCall.format.string
        /\ FormatText(blobCall.format) \in ACCEPTED_MIME_TYPES
        /\ blobCall.quality.number /\ ~blobCall.quality.nan
        /\ blobCall.quality.hundredths \in {0, 100})
         => blobCall.encoded

(***************************************************************************)
(* Further claims about the PatternExtractor, checked under SpecExtract.   *)
(***************************************************************************)
\* the indices (from 1) of the pixels sampled: x and y multiples of 10,
\* alpha above 200
Sampled ==
  {i \in 1 .. Len(cropCall.pixels) :
     /\ ((i - 1) % cropCall.width) % 10 = 0
     /\ ((i - 1) \div cropCall.width) % 10 = 0
     /\ cropCall.pixels[i].a > 200}

\* the multiple of 32 nearest to a channel value
NearestMultiple(v) == ((v + 16) \div 32) * 32

NearestQuantized(p) ==
  [r |-> NearestMultiple(p.r), g |-> NearestMultiple(p.g), b |-> NearestMultiple(p.b)]

\* C23 (as claimed): the colour _detectDominantColor returns is, of the
\* sampled pixels' colours with each channel taken to the nearest
\* multiple of 32, one that occurs most often.
DominantIsNearestQuantized ==
  (cropCall.pc = "returned" /\ cropCall.op = "detect" /\ Sampled # {}) =>
    \E i \in Sampled :
      /\ cropCall.dominant = <<NearestQuantized(cropCall.pixels[i])>>
      /\ \A j \in Sampled :
           Cardinality({k \in Sampled : NearestQuantized(cropCall.pixels[k])
                                          = NearestQuantized(cropCall.pixels[j])})
             <= Cardinality({k \in Sampled : NearestQuantized(cropCall.pixels[k])
                                               = NearestQuantized(cropCall.pixels[i])})

\* the pixels of the call with alpha above the threshold and farther than
\* 30 from the dominant colour the call found
Foreground ==
  {c \in (0 .. cropCall.width - 1) \X (0 .. cropCall.height - 1) :
     LET p == cropCall.pixels[c[2] * cropCall.width + c[1] + 1]
         d == cropCall.dominant[1]
     IN /\ p.a > cropCall.threshold
        /\ (p.r - d.r) * (p.r - d.r) + (p.g - d.g) * (p.g - d.g)
             + (p.b - d.b) * (p.b - d.b) > 900}

\* C29: when some pixel has alpha above the threshold and lies farther
\* than 30 from the dominant colour, the box _detectPatternBounds returns
\* has the least x and y of those pixels as left and top and their
\* greatest x and y plus 1 as right and bottom.
MinimalRectangle ==
  (cropCall.pc = "returned" /\ cropCall.op \in {"detect", "extractPattern"}
     /\ Foreground # {}) =>
    /\ cropCall.bounds # <<>>
    /\ \A c \in Foreground :
         /\ cropCall.bounds[1].left <= c[1] /\ c[1] < cropCall.bounds[1].right
         /\ cropCall.bounds[1].top <= c[2] /\ c[2] < cropCall.bounds[1].bottom
    /\ \E c \in Foreground : c[1] = cropCall.bounds[1].left
    /\ \E c \in Foreground : c[1] + 1 = cropCall.bounds[1].right
    /\ \E c \in Foreground : c[2] = cropCall.bounds[1].top
    /\ \E c \in Foreground : c[2] + 1 = cropCall.bounds[1].bottom

\* C29 witness: a row of 21 pixels, black between three grey ones: the
\* grey pixels at both ends are opaque and near the dominant colour, and
\* the box holds the black ones only
MinimalRectangleWitness ==
  /\ cropCall.pc = "returned"
  /\ cropCall.op = "detect"
  /\ cropCall.width = 21
  /\ cropCall.pixels[1] = Grey
  /\ cropCall.pixels[21] = Grey
  /\ cropCall.dominant = <<[r |-> 32, g |-> 32, b |-> 32]>>
  /\ cropCall.bounds = <<Box(1, 0, 20, 1)>>

(***************************************************************************)
(* Claim about isRetryable, checked under SpecClassify.                    *)
(***************************************************************************)
\* the answers of the server the claim names: bad request, invalid key,
\* quota or payment, service unavailable, no response
NamedAnswers ==
  {Answer("status", st) : st \in {400, 401, 402, 403, 429, 500, 503}}
    \cup {Answer("noResponse", 0)}

\* C24 (as claimed): for an error without a retryable flag whose type and
\* code are those RemoveBgService gives a failure, isRetryable returns the
\* retryable flag RemoveBgService gives it.
MirrorsClient ==
  (verdict.pc = "returned" /\ ~verdict.error.nullish /\ ~verdict.error.hasRetryable) =>
    \A answer \in NamedAnswers :
      (/\ OperationError(answer).type = verdict.error.type
       /\ OperationError(answer).code = verdict.error.code)
        => verdict.result = OperationError(answer).retryable

(***************************************************************************)
(* Claims about retry and withRetry, checked under SpecRetry.              *)
(***************************************************************************)
\* C25 (as claimed): a withRetry call whose operation has failed with an
\* error that isRetryable rejects has thrown that error after one call of
\* the operation and no sleep.
NonRetryableOnce ==
  (/\ retryCall.via = "withRetry"
   /\ retryCall.failures # <<>>
   /\ ~isRetryable(retryCall.failures[1]))
    => /\ retryCall.pc = "thrown"
       /\ retryCall.thrown = <<retryCall.failures[1]>>
       /\ retryCall.invoked = 1
       /\ retryCall.sleeps = <<>>

\* C26: retry calls the operation at most maxAttempts times; it returns
\* at the first success; when maxAttempts calls have failed it throws the
\* error of the last one; with maxAttempts < 1 or an operation that is not
\* a function it throws without a call of the operation and without a
\* sleep.
RetryContract ==
  /\ retryCall.maxAttempts >= 1 => retryCall.invoked <= retryCall.maxAttempts
  /\ retryCall.returned
       => (retryCall.pc = "returned"
             /\ retryCall.invoked = Len(retryCall.failures) + 1)
  /\ retryCall.pc \in {"running", "sleeping", "thrown"} => ~retryCall.returned
  /\ (retryCall.pc = "thrown" /\ retryCall.isFunction /\ retryCall.maxAttempts >= 1)
       => /\ retryCall.invoked = retryCall.maxAttempts
          /\ Len(retryCall.failures) = retryCall.maxAttempts
          /\ retryCall.thrown = <<retryCall.failures[Len(retryCall.failures)]>>
  /\ (retryCall.pc \notin {"idle", "called"}
        /\ (~retryCall.isFunction \/ retryCall.maxAttempts < 1))
       => /\ retryCall.pc = "thrown"
          /\ retryCall.thrown # <<>>
          /\ retryCall.invoked = 0
          /\ retryCall.sleeps = <<>>

\* C26 witness: three attempts allowed, three failures, the error of the
\* third is thrown
RetryContractWitness ==
  /\ retryCall.pc = "thrown"
  /\ retryCall.via = "retry"
  /\ retryCall.maxAttempts = 3
  /\ retryCall.invoked = 3
  /\ retryCall.failures = <<PartialError(NETWORK_ERROR, ""), RawError,
                            PartialError(UPLOAD_ERROR, "")>>
  /\ retryCall.thrown = <<PartialError(UPLOAD_ERROR, "")>>

(***************************************************************************)
(* Claim about the resource registry, checked under SpecRegistry.          *)
(***************************************************************************)
\* the releases attempted in a round of cleanup
ReleasedIn(round) ==
  SelectSeq(resources.released, LAMBDA e : e.round = round)

\* C27: each cleanup attempts the release of every registered resource
\* that has a cleanup function or is a blob: URL exactly once, also after
\* one whose release throws; it does not throw; it leaves the registry
\* empty, so that a cleanup that follows at once releases nothing.
CleanupReleasesOnce ==
  [][Cleanup =>
       /\ resources'.registry = <<>>
       /\ ~resources'.threw
       /\ \A i \in 1 .. Len(resources.registry) :
            Cardinality({k \in 1 .. Len(resources'.released) :
                           /\ resources'.released[k].round = resources'.cleanups
                           /\ resources'.released[k].id = resources.registry[i].id})
              = (IF Releasable(resources.registry[i]) THEN 1 ELSE 0)
       /\ \A k \in 1 .. Len(resources'.released) :
            resources'.released[k].round = resources'.cleanups
              => \E i \in 1 .. Len(resources.registry) :
                   resources.registry[i].id = resources'.released[k].id
       /\ resources.registry = <<>>
            => resources'.released = resources.released]_vars

\* C27 witness: a second cleanup has run straight after one that released
\* a resource after another whose cleanup function throws
CleanupReleasesOnceWitness ==
  /\ resources.cleanups = 2
  /\ resources.registry = <<>>
  /\ resources.released = <<[round |-> 1, id |-> 2], [round |-> 1, id |-> 3]>>

(***************************************************************************)
(* Claim about App.retry, checked under SpecApp.                           *)
(***************************************************************************)
\* C28: a retry step calls ImageProcessorService.processImage only when
\* the error is not null and its retryable flag is true, and then with
\* the uploaded file; when there is no error or its flag is false the step
\* makes no call and leaves the data of the component as they are.
RetryOnlyWhenRetryable ==
  [][AppRetry =>
       /\ appHist'.serviceCalls # appHist.serviceCalls
            => /\ app.error # <<>>
               /\ app.error[1].hasRetryable /\ app.error[1].retryable
               /\ app.uploadedFile # <<>>
               /\ appHist'.serviceCalls
                    = Append(appHist.serviceCalls, app.uploadedFile[1])
       /\ (app.error = <<>>
             \/ ~(app.error[1].hasRetryable /\ app.error[1].retryable))
            => /\ app' = app
               /\ appHist'.serviceCalls = appHist.serviceCalls
               /\ appHist'.pending = appHist.pending]_vars

\* C28 witness: after a rejection left a retryable error, retry has called
\* the service a second time with the uploaded file
RetryOnlyWhenRetryableWitness ==
  /\ appHist.lastRetry = "processed"
  /\ appHist.serviceCalls = <<PoolFile(1), PoolFile(1)>>
  /\ app.uploadedFile = <<PoolFile(1)>>
  /\ app.error = <<>>
  /\ app.isProcessing

(***************************************************************************)
(* Claim about _generateCacheKey, checked under SpecKeys.                  *)
(***************************************************************************)
\* C30 (as claimed): two files get the same key exactly when they have
\* the same name, size, lastModified and type.
KeysInjective ==
  keyCall.pc = "returned" =>
    (keyCall.keys[1] = keyCall.keys[2]
       <=> /\ keyCall.files[1].name = keyCall.files[2].name
           /\ keyCall.files[1].size = keyCall.files[2].size
           /\ keyCall.files[1].lastModified = keyCall.files[2].lastModified
           /\ keyCall.files[1].type = keyCall.files[2].type)

(***************************************************************************)
(* Claim about ImageProcessorService.removeBackground, checked under       *)
(* SpecOptions.                                                            *)
(***************************************************************************)
\* C31 (as claimed): called without options, removeBackground hands the API
\* service exactly {size: 'auto', type: 'auto', format: 'png'}; every
\* option the caller supplies reaches the API service with the caller's
\* value.
ForwardsThreeDefaults ==
  \A p \in Procs :
    calls[p].pc = "awaitingApi" =>
      /\ calls[p].passed[1] = NoOptions =>
           calls[p].options[1] = [size |-> "auto", type |-> "auto", format |-> "png"]
      /\ \A k \in DOMAIN calls[p].passed[1] :
           /\ k \in DOMAIN calls[p].options[1]
           /\ calls[p].options[1][k] = calls[p].passed[1][k]

(***************************************************************************)
(* Claims about processImage calls in flight together, checked under       *)
(* SpecOverlap.                                                            *)
(***************************************************************************)
\* an entry as a call that has decoded its result writes it
CompleteEntry(e) ==
  /\ e.key # ""
  /\ e.timestamp <= now
  /\ e.result.originalDataUrl.data # NoPixels
  /\ e.result.extractedDataUrl.data # NoPixels
  /\ e.result.width = e.result.extractedDataUrl.data.w
  /\ e.result.height = e.result.extractedDataUrl.data.h
  /\ e.result.width > 0
  /\ e.result.height > 0
  /\ ~e.result.fromCache

\* C32: however the calls in flight interleave, the cache never holds more
\* than MAX_CACHE_SIZE entries, never two for one key, and every entry is
\* a complete result with its timestamp, stored under a key that a call
\* wrote after it had decoded its result.
CacheWellFormed ==
  /\ Len(cache) <= MAX_CACHE_SIZE
  /\ \A i \in 1 .. Len(cache) :
       /\ CompleteEntry(cache[i])
       /\ Occurrences(inserted, cache[i].key) >= 1
       /\ \A j \in 1 .. Len(cache) : cache[i].key = cache[j].key => i = j

\* C32 witness: a call has stored its result in a full cache while
\* another call is waiting for the client
CacheWellFormedWitness ==
  /\ Len(cache) = MAX_CACHE_SIZE
  /\ \E p, q \in Procs :
       /\ p # q
       /\ calls[p].pc = "done"
       /\ ~calls[p].result[1].fromCache
       /\ IndexOf(cache, calls[p].cacheKey) # 0
       /\ calls[q].pc = "calling"

\* C33 (as claimed): calls in flight together for one identity invoke the
\* client once between them.
ClientOncePerIdentity ==
  \A p, q \in Procs :
    (p # q /\ Running(p) /\ Running(q) /\ calls[p].cacheKey = calls[q].cacheKey)
      => calls[p].invoked + calls[q].invoked <= 1

\* C33 (amended): a call is served from the cache exactly when its own
\* lookup met a fresh entry; every other call, also one that started while
\* a call for the same identity was in flight, invokes the client itself,
\* once, and returns a result that is not from the cache.
EachMissInvokes ==
  \A p \in Procs :
    /\ calls[p].pc \in {"readFile", "decodeOriginal", "compressing", "prepared"}
         => (calls[p].lookup \in {"absent", "expired"} /\ calls[p].invoked = 0)
    /\ calls[p].pc \in {"calling", "readResult", "decodeResult"}
         => (calls[p].lookup \in {"absent", "expired"} /\ calls[p].invoked = 1)
    /\ calls[p].pc = "done"
         => /\ calls[p].result[1].fromCache <=> calls[p].lookup = "fresh"
            /\ calls[p].invoked = IF calls[p].result[1].fromCache THEN 0 ELSE 1

\* C33 witness: two calls for one identity have both invoked the client
\* and returned results that differ, neither from the cache
EachMissInvokesWitness ==
  \E p, q \in Procs :
    /\ p # q
    /\ calls[p].pc = "done" /\ calls[q].pc = "done"
    /\ calls[p].cacheKey = calls[q].cacheKey
    /\ calls[p].invoked = 1 /\ calls[q].invoked = 1
    /\ ~calls[p].result[1].fromCache /\ ~calls[q].result[1].fromCache
    /\ calls[p].result[1].extractedDataUrl # calls[q].result[1].extractedDataUrl

\* the entries of c, without their order
Entries(c) == {c[i] : i \in 1 .. Len(c)}

\* C34 (as claimed): a call that stores its result removes an entry only
\* if its key is not resident and the cache is full; storing under a
\* resident key removes no other entry and keeps the size.
EvictsOnlyOnOverflow ==
  [][\A p \in Procs :
       (calls[p].pc = "decodeResult" /\ calls'[p].pc = "done") =>
         LET key == calls[p].cacheKey
             resident == IndexOf(cache, key) # 0
             others == {e \in Entries(cache) : e.key # key}
         IN /\ (~(others \subseteq Entries(cache')))
                 => (~resident /\ Len(cache) = MAX_CACHE_SIZE)
            /\ resident => (others \subseteq Entries(cache') /\ Len(cache') = Len(cache))]_vars

(***************************************************************************)
(* Claim about failing processImage calls, checked under Spec.             *)
(***************************************************************************)
\* C35: no step of a processImage call other than the one that returns a
\* fresh result stores or changes a cache entry; the only change such a
\* step makes is the removal, by the lookup, of the expired entry for the
\* call's own key.  A call that fails has made only such steps.
FailingCallKeepsCache ==
  [][\A p \in Procs :
       (calls'[p] # calls[p] /\ ~(calls[p].pc = "decodeResult" /\ calls'[p].pc = "done"))
         => \/ cache' = cache
            \/ /\ calls[p].pc = "idle"
               /\ calls'[p].lookup = "expired"
               /\ cache' = MapDelete(cache, calls'[p].cacheKey)
               /\ Len(cache') = Len(cache) - 1]_vars

\* C35 witness: a call whose lookup removed the expired entry for its key
\* has failed at the client, and the key is not resident
FailingCallKeepsCacheWitness ==
  \E p \in Procs :
    /\ calls[p].pc = "failed"
    /\ calls[p].lookup = "expired"
    /\ calls[p].invoked = 1
    /\ IndexOf(cache, calls[p].cacheKey) = 0
    /\ Len(cache) = MAX_CACHE_SIZE - 1

(***************************************************************************)
(* Claims about the App component, checked under SpecEvents.               *)
(***************************************************************************)
\* C36 (as claimed): while a service call of the component is pending,
\* isProcessing is true, canProcess is false and no second call is pending.
PendingMeansProcessing ==
  appHist.pending # <<>> =>
    /\ app.isProcessing
    /\ ~canProcess(app)
    /\ Len(appHist.pending) = 1

\* C37 (as claimed): an extracted image that is displayed is the result of
\* processing the file the component holds.
DisplayedIsCurrent ==
  app.extractedImageUrl # <<>> =>
    /\ app.uploadedFile # <<>>
    /\ app.processedImage # <<>>
    /\ app.processedImage[1].originalDataUrl = DataUrlOf(FileBlob(app.uploadedFile[1]))

\* C38 (as claimed): error is non-null exactly when processingStatus is
\* ERROR.
ErrorIffStatus ==
  app.error # <<>> <=> app.processingStatus = "error"

(***************************************************************************)
(* Claim about resizeImage, checked under SpecResize.                      *)
(***************************************************************************)
\* C39 (as claimed): with positive bounds resizeImage returns for every
\* image, and the canvas it returns is at least one pixel wide and high.
ResizeNeverEmpty ==
  (/\ canvasCall.pc \in {"returned", "thrown"}
   /\ canvasCall.maxWidth >= 1
   /\ canvasCall.maxHeight >= 1)
    => /\ canvasCall.pc = "returned"
       /\ canvasCall.canvas.w >= 1
       /\ canvasCall.canvas.h >= 1

(***************************************************************************)
(* Claim about termination, checked under SpecLive.                        *)
(***************************************************************************)
\* a thrown value with a type and a code
Classified(e) == (~e.nullish) /\ e.type # "" /\ e.code # ""

\* C40: a removeBackground call never makes more than maxRetries posts nor
\* more than maxRetries - 1 sleeps, what it throws is a classified error,
\* and when every post and every sleep ends the call returns or throws;
\* every processImage call then reaches done or failed.
CallsTerminate ==
  /\ [](/\ posts <= cfg.maxRetries
        /\ Len(sleeps) <= cfg.maxRetries - 1
        /\ Len(responses) <= posts
        /\ (rpc = "thrown" => (thrown # <<>> /\ Classified(thrown[1]))))
  /\ (rpc \in {"posting", "sleeping"}) ~> (rpc \in {"returned", "thrown"})
  /\ Running(SeqProc) ~> (calls[SeqProc].pc \in {"done", "failed"})

\* C40 witness: a call has thrown after maxRetries posts and
\* maxRetries - 1 sleeps, and the processImage call that made it has failed
\* with its error
CallsTerminateWitness ==
  /\ cfg.maxRetries = 3
  /\ calls[SeqProc].pc = "failed"
  /\ calls[SeqProc].invoked = 1
  /\ calls[SeqProc].error[1].code = NETWORK_TIMEOUT
  /\ ncalls = 1

====
